---- MODULE Spec2Model ----
(***************************************************************************)
(* Verification model of the shaum fasting-rules engine: the Hijri         *)
(* converter with its single-slot memo (src/src/calendar.rs), the rule     *)
(* engine (src/src/rules.rs), the Daud schedule iterator (src/src/lib.rs), *)
(* the NaiveDate extension methods (src/src/extension.rs) and the          *)
(* altitude-crossing search of the prayer times                            *)
(* (src/src/astronomy/prayer.rs).                                          *)
(*                                                                         *)
(* Dates are Julian Day Numbers.  An instant is a record [day, sec] with   *)
(* sec the second of the UTC day.                                          *)
(***************************************************************************)
EXTENDS Integers, Sequences, FiniteSets, TLC

VARIABLES
    ctx,        \* the RuleContext in use
    built,      \* "Ok", or "InvalidConfiguration" after a rejected build
    call,       \* inputs of the latest call
    result,     \* outcome of the latest call
    cache,      \* HIJRI_CACHE, the thread-local memo slot
    iter,       \* DaudIterator: current, end, should_fast (and its start date)
    emitted,    \* dates returned so far by DaudIterator::next
    last,       \* outcome of the latest step of DaudIterator::next
    tls,        \* the HIJRI_CACHE slots of a multi-threaded run
    threads,    \* each thread's position in its to_hijri call
    search,     \* the altitude-crossing search of prayer.rs
    builder,    \* the RuleContextBuilder under construction
    copy,       \* the latest clone of a RuleContext
    geo         \* the latest GeoCoordinate constructed

vars == <<ctx, built, call, result, cache, iter, emitted, last, tls, threads, search,
          builder, copy, geo>>

\* `let x = v` followed by F(x): v is evaluated once
Bind(v, F(_)) == CHOOSE r \in {F(x) : x \in {v}} : TRUE

----------------------------------------------------------------------------
(* Bounds of the model *)

\* longest list of custom rules registered on a context
MaxRules == 2
\* longest Daud range: end - start
MaxWindow == 5

----------------------------------------------------------------------------
(* chrono::NaiveDate *)

\* NaiveDate::from_ymd_opt: proleptic Gregorian date to day number
FromYmd(y, m, d) ==
    LET a  == (14 - m) \div 12
        yy == y + 4800 - a
        mm == m + 12 * a - 3
    IN  d + ((153 * mm + 2) \div 5) + 365 * yy + (yy \div 4) - (yy \div 100)
          + (yy \div 400) - 32045

\* Datelike::month
MonthOf(jd) ==
    LET f == jd + 1401 + ((((4 * jd + 274277) \div 146097) * 3) \div 4) - 38
        e == 4 * f + 3
        g == (e % 1461) \div 4
        h == 5 * g + 2
    IN  (((h \div 153) + 2) % 12) + 1

\* Datelike::year
YearOf(jd) ==
    LET f == jd + 1401 + ((((4 * jd + 274277) \div 146097) * 3) \div 4) - 38
        e == 4 * f + 3
    IN  (e \div 1461) - 4716 + ((12 + 2 - MonthOf(jd)) \div 12)

\* Datelike::weekday (day number 0 was a Monday)
WeekdayOf(jd) == <<"Mon", "Tue", "Wed", "Thu", "Fri", "Sat", "Sun">>[(jd % 7) + 1]

\* NaiveDate::MAX, December 31 of year 262142
NaiveDateMax == FromYmd(262142, 12, 31)

\* NaiveDate::MIN, January 1 of year -262143
NaiveDateMin == FromYmd(-262143, 1, 1)

\* NaiveDate::succ_opt: None (modelled as -1) on the last representable day
SuccOpt(jd) == IF jd >= NaiveDateMax THEN -1 ELSE jd + 1

----------------------------------------------------------------------------
(* src/src/calendar.rs *)

HIJRI_MIN_YEAR == 1938
HIJRI_MAX_YEAR == 2076

NoErr == [type |-> "None", date |-> 0, min |-> 0, max |-> 0]

\* ShaumError::date_out_of_range
DateOutOfRange(date) ==
    [type |-> "DateOutOfRange", date |-> date,
     min |-> FromYmd(HIJRI_MIN_YEAR, 1, 1), max |-> FromYmd(HIJRI_MAX_YEAR, 12, 31)]

\* HijriDate::from_gr: arithmetic (tabular) Islamic calendar of a day number
FromGr(jd) ==
    LET l0 == jd - 1948440 + 10632
        n  == (l0 - 1) \div 10631
        l1 == l0 - 10631 * n + 354
        j  == (((10985 - l1) \div 5316) * ((50 * l1) \div 17719))
              + ((l1 \div 5670) * ((43 * l1) \div 15238))
        l2 == l1 - (((30 - j) \div 15) * ((17719 * j) \div 50))
                 - ((j \div 16) * ((15238 * j) \div 43)) + 29
        m  == (24 * l2) \div 709
        d  == l2 - ((709 * m) \div 24)
        y  == 30 * n + j - 30
    IN  <<y, m, d>>

\* the Gregorian day number of a Hijri date in the same calendar
HijriToDay(y, m, d) ==
    d + 29 * (m - 1) + (m \div 2) + 354 * (y - 1) + ((3 + 11 * y) \div 30) + 1948439

\* HijriDate::from_hijri: rebuilds a date from a stored triple; gr is the
\* Gregorian day the rebuilt HijriDate carries
FromHijri(y, m, d) ==
    IF m >= 1 /\ m <= 12 /\ d >= 1 /\ d <= 30
    THEN [kind |-> "Ok", hijri |-> <<y, m, d>>, gr |-> HijriToDay(y, m, d)]
    ELSE [kind |-> "Err", hijri |-> <<0, 0, 0>>, gr |-> 0]

\* the empty memo slot
NoCache == [full |-> FALSE, date |-> 0, adj |-> 0, y |-> 0, m |-> 0, d |-> 0]

\* to_hijri that converts the date it is given and ignores the adjustment
to_hijri_Unshifted(c, date, adjustment) ==
    IF YearOf(date) < HIJRI_MIN_YEAR \/ YearOf(date) > HIJRI_MAX_YEAR
    THEN [kind |-> "Err", hijri |-> <<0, 0, 0>>, gr |-> 0, hit |-> FALSE,
          err |-> DateOutOfRange(date), cache |-> c]
    ELSE Bind(FromGr(date), LAMBDA h :
              [kind |-> "Ok", hijri |-> h, gr |-> date, hit |-> FALSE,
               err |-> NoErr,
               cache |-> [full |-> TRUE, date |-> date, adj |-> adjustment,
                          y |-> h[1], m |-> h[2], d |-> h[3]]])

\* to_hijri whose memo slot is looked up by the date alone
to_hijri_KeyDateOnly(c, date, adjustment) ==
    IF c.full /\ c.date = date
    THEN Bind(FromHijri(c.y, c.m, c.d), LAMBDA r :
             [kind |-> r.kind, hijri |-> r.hijri, gr |-> r.gr, hit |-> TRUE,
              err |-> IF r.kind = "Ok" THEN NoErr
                      ELSE [NoErr EXCEPT !.type = "HijriConversionError"],
              cache |-> c])
    ELSE Bind(date + adjustment, LAMBDA adjusted_date :
             IF adjusted_date > NaiveDateMax \/ adjusted_date < NaiveDateMin
             THEN [kind |-> "Panic", hijri |-> <<0, 0, 0>>, gr |-> 0, hit |-> FALSE,
                   err |-> NoErr, cache |-> c]
             ELSE IF YearOf(adjusted_date) < HIJRI_MIN_YEAR
                     \/ YearOf(adjusted_date) > HIJRI_MAX_YEAR
             THEN [kind |-> "Err", hijri |-> <<0, 0, 0>>, gr |-> 0, hit |-> FALSE,
                   err |-> DateOutOfRange(adjusted_date), cache |-> c]
             ELSE Bind(FromGr(adjusted_date), LAMBDA h :
                       [kind |-> "Ok", hijri |-> h, gr |-> adjusted_date, hit |-> FALSE,
                        err |-> NoErr,
                        cache |-> [full |-> TRUE, date |-> date, adj |-> adjustment,
                                   y |-> h[1], m |-> h[2], d |-> h[3]]]))

\* to_hijri(date, adjustment) run against memo slot c: the outcome and the
\* slot afterwards.  kind "Panic" is the overflow of `date + Duration`.
to_hijri(c, date, adjustment) ==
    IF c.full /\ c.date = date /\ c.adj = adjustment
    THEN Bind(FromHijri(c.y, c.m, c.d), LAMBDA r :
             [kind |-> r.kind, hijri |-> r.hijri, gr |-> r.gr, hit |-> TRUE,
              err |-> IF r.kind = "Ok" THEN NoErr
                      ELSE [NoErr EXCEPT !.type = "HijriConversionError"],
              cache |-> c])
    ELSE Bind(date + adjustment, LAMBDA adjusted_date :
             IF adjusted_date > NaiveDateMax \/ adjusted_date < NaiveDateMin
             THEN [kind |-> "Panic", hijri |-> <<0, 0, 0>>, gr |-> 0, hit |-> FALSE,
                   err |-> NoErr, cache |-> c]
             ELSE IF YearOf(adjusted_date) < HIJRI_MIN_YEAR
                     \/ YearOf(adjusted_date) > HIJRI_MAX_YEAR
             THEN [kind |-> "Err", hijri |-> <<0, 0, 0>>, gr |-> 0, hit |-> FALSE,
                   err |-> DateOutOfRange(adjusted_date), cache |-> c]
             ELSE Bind(FromGr(adjusted_date), LAMBDA h :
                       [kind |-> "Ok", hijri |-> h, gr |-> adjusted_date, hit |-> FALSE,
                        err |-> NoErr,
                        cache |-> [full |-> TRUE, date |-> date, adj |-> adjustment,
                                   y |-> h[1], m |-> h[2], d |-> h[3]]]))

----------------------------------------------------------------------------
(* src/src/types.rs *)

\* FastingStatus, in declaration order (the derived Ord)
FastingStatus == <<"Mubah", "Makruh", "Sunnah", "SunnahMuakkadah", "Wajib", "Haram">>

\* position of a status in the derived ordering
Rank(s) == CHOOSE i \in 1..Len(FastingStatus) : FastingStatus[i] = s

Madhab == {"Shafi", "Hanafi", "Maliki", "Hanbali"}

DaudStrategy == {"Skip", "Postpone"}

\* RuleTrace::new
RuleTrace(code, details) == [code |-> code, details |-> details]

\* FastingAnalysis::with_traces, wrapped in Ok
with_traces(datetime, status, types, hijri, traces) ==
    [kind |-> "Ok", date |-> datetime, status |-> status, reasons |-> types,
     hijri |-> hijri, traces |-> traces, err |-> NoErr]

\* FastingAnalysis::new, wrapped in Ok
FastingAnalysisNew(datetime, status, types, hijri) ==
    with_traces(datetime, status, types, hijri, <<>>)

\* an Err(..) or a panic in place of an analysis
Failure(kind, datetime, err, traces) ==
    [kind |-> kind, date |-> datetime, status |-> "Mubah", reasons |-> <<>>,
     hijri |-> <<0, 0, 0>>, traces |-> traces, err |-> err]

\* Option<GeoCoordinate>; lng in whole degrees
NoCoords == [some |-> FALSE, lat |-> 0, lng |-> 0]

GeoCoordinate(lat, lng) == [some |-> TRUE, lat |-> lat, lng |-> lng]

----------------------------------------------------------------------------
(* crate::constants, used by src/src/rules.rs *)

MONTH_MUHARRAM == 1
MONTH_RAMADHAN == 9
MONTH_SHAWWAL == 10
MONTH_DHUL_HIJJAH == 12
DAY_TASUA == 9
DAY_ASHURA == 10
DAY_ARAFAH == 9

----------------------------------------------------------------------------
(* src/src/rules.rs *)

\* the custom rules of the model: a rule matches from Hijri day `from` on and
\* then returns (status, FastingType(name))
CustomSunnah == [name |-> "CustomSunnah", status |-> "Sunnah", from |-> 1]
CustomHaram == [name |-> "CustomHaram", status |-> "Haram", from |-> 29]
CustomRuleSet == {CustomSunnah, CustomHaram}

\* CustomFastingRule::evaluate
evaluate(rule, date, h_year, h_month, h_day) ==
    IF h_day >= rule.from
    THEN [some |-> TRUE, status |-> rule.status, type |-> rule.name]
    ELSE [some |-> FALSE, status |-> "Mubah", type |-> "None"]

\* RuleContext::default
DefaultContext ==
    [adjustment |-> 0, madhab |-> "Shafi", daud_strategy |-> "Skip",
     strict |-> FALSE, custom_rules |-> <<>>]

\* i64::clamp(-30, 30)
Clamp30(n) == IF n < -30 THEN -30 ELSE IF n > 30 THEN 30 ELSE n

\* SimpleSunsetCalculator::get_sunset: 18:00 local mean time as a UTC instant.
\* (18.0 - lng / 15.0) * 3600.0 is exact for the longitudes of the model.
get_sunset(date, coords) ==
    LET seconds == 64800 - 240 * coords.lng
        day     == date + (seconds \div 86400)
    IN  IF day > NaiveDateMax
        THEN [some |-> FALSE, day |-> 0, sec |-> 0]
        ELSE [some |-> TRUE, day |-> day, sec |-> seconds % 86400]

\* DateTime<Utc> comparison a > b
After(a, b) == a.day > b.day \/ (a.day = b.day /\ a.sec > b.sec)

\* EffectiveDate that rolls over from the instant of sunset on
EffectiveDate_AtSunset(datetime, coords) ==
    Bind(get_sunset(datetime.day, coords), LAMBDA sunset :
        IF coords.some /\ sunset.some /\ ~After(sunset, datetime)
        THEN IF SuccOpt(datetime.day) = -1
             THEN [kind |-> "Err", date |-> datetime.day, rolled |-> FALSE]
             ELSE [kind |-> "Ok", date |-> SuccOpt(datetime.day), rolled |-> TRUE]
        ELSE [kind |-> "Ok", date |-> datetime.day, rolled |-> FALSE])

\* analyze, step 1: the effective date (Maghrib logic)
EffectiveDate(datetime, coords) ==
    Bind(get_sunset(datetime.day, coords), LAMBDA sunset :
        IF coords.some /\ sunset.some /\ After(datetime, sunset)
        THEN IF SuccOpt(datetime.day) = -1
             THEN [kind |-> "Err", date |-> datetime.day, rolled |-> FALSE]
             ELSE [kind |-> "Ok", date |-> SuccOpt(datetime.day), rolled |-> TRUE]
        ELSE [kind |-> "Ok", date |-> datetime.day, rolled |-> FALSE])

\* Push that records the reason without a trace entry
Push_TypeOnly(acc, type, code) ==
    [acc EXCEPT !.types = Append(@, type)]

\* types.push(t); traces.push(RuleTrace::new(code, None))
Push(acc, type, code) ==
    [acc EXCEPT !.types = Append(@, type),
                !.traces = Append(@, RuleTrace(code, "None"))]

\* HaramReason with the Tashriq days cut short at 12 Dhul-Hijjah
HaramReason_ShortTashriq(h_month, h_day) ==
    IF h_month = MONTH_SHAWWAL /\ h_day = 1 THEN "EidAlFitr"
    ELSE IF h_month = MONTH_DHUL_HIJJAH /\ h_day = 10 THEN "EidAlAdha"
    ELSE IF h_month = MONTH_DHUL_HIJJAH /\ h_day >= 11 /\ h_day < 13 THEN "Tashriq"
    ELSE "None"

\* the reason of the Haram stage for a Hijri day, "None" when it is not Haram
HaramReason(h_month, h_day) ==
    IF h_month = MONTH_SHAWWAL /\ h_day = 1 THEN "EidAlFitr"
    ELSE IF h_month = MONTH_DHUL_HIJJAH /\ h_day = 10 THEN "EidAlAdha"
    ELSE IF h_month = MONTH_DHUL_HIJJAH /\ h_day >= 11 /\ h_day <= 13 THEN "Tashriq"
    ELSE "None"

\* StageWajib that records the reason and leaves the status alone
StageWajib_ReasonOnly(acc, h_month) ==
    IF h_month = MONTH_RAMADHAN THEN Push(acc, "Ramadhan", "Ramadhan") ELSE acc

\* Wajib stage
StageWajib(acc, h_month) ==
    IF h_month = MONTH_RAMADHAN
    THEN [Push(acc, "Ramadhan", "Ramadhan") EXCEPT !.status = "Wajib"]
    ELSE acc

\* `if !status.is_wajib() { status = SunnahMuakkadah }`
RaiseMuakkadah(acc) ==
    IF acc.status # "Wajib" THEN [acc EXCEPT !.status = "SunnahMuakkadah"] ELSE acc

\* RaiseSunnah that sets Sunnah whatever the status was
RaiseSunnah_Always(acc) ==
    [acc EXCEPT !.status = "Sunnah"]

\* `if !status.is_wajib() && status < Sunnah { status = Sunnah }`
RaiseSunnah(acc) ==
    IF acc.status # "Wajib" /\ Rank(acc.status) < Rank("Sunnah")
    THEN [acc EXCEPT !.status = "Sunnah"] ELSE acc

\* Sunnah Muakkadah stage: Arafah, then Ashura
StageMuakkadah(acc, h_month, h_day) ==
    Bind(IF h_month = MONTH_DHUL_HIJJAH /\ h_day = DAY_ARAFAH
         THEN RaiseMuakkadah(Push(acc, "Arafah", "Arafah")) ELSE acc,
         LAMBDA a1 :
            IF h_month = MONTH_MUHARRAM /\ h_day = DAY_ASHURA
            THEN RaiseMuakkadah(Push(a1, "Ashura", "Ashura")) ELSE a1)

\* Sunnah stage: Tasua, Ayyamul Bidh, Monday/Thursday, Shawwal
RuleTasua(acc, h_month, h_day) ==
    IF h_month = MONTH_MUHARRAM /\ h_day = DAY_TASUA
    THEN IF acc.status # "Wajib" /\ acc.status # "SunnahMuakkadah"
         THEN [Push(acc, "Tasua", "Tasua") EXCEPT !.status = "Sunnah"]
         ELSE Push(acc, "Tasua", "Tasua")
    ELSE acc

RuleAyyamulBidh(acc, h_day) ==
    IF h_day >= 13 /\ h_day <= 15
    THEN RaiseSunnah(Push(acc, "AyyamulBidh", "AyyamulBidh")) ELSE acc

RuleWeekday(acc, weekday) ==
    IF weekday = "Mon" THEN RaiseSunnah(Push(acc, "Monday", "Monday"))
    ELSE IF weekday = "Thu" THEN RaiseSunnah(Push(acc, "Thursday", "Thursday"))
    ELSE acc

RuleShawwal(acc, h_month, h_day) ==
    IF h_month = MONTH_SHAWWAL /\ h_day > 1
    THEN RaiseSunnah(Push(acc, "Shawwal", "Shawwal")) ELSE acc

StageSunnah(acc, h_month, h_day, weekday) ==
    Bind(RuleTasua(acc, h_month, h_day), LAMBDA a1 :
    Bind(RuleAyyamulBidh(a1, h_day), LAMBDA a2 :
    Bind(RuleWeekday(a2, weekday), LAMBDA a3 :
         RuleShawwal(a3, h_month, h_day))))

\* StageMakruh that only the Shafi school applies
StageMakruh_ShafiOnly(acc, madhab, weekday) ==
    IF acc.status = "Mubah" /\ madhab = "Shafi"
    THEN IF weekday = "Fri"
         THEN [Push(acc, "FridayExclusive", "FridaySingledOut") EXCEPT !.status = "Makruh"]
         ELSE IF weekday = "Sat"
         THEN [Push(acc, "SaturdayExclusive", "SaturdaySingledOut") EXCEPT !.status = "Makruh"]
         ELSE acc
    ELSE acc

\* StageMakruh without the test that the status is still Mubah
StageMakruh_Unguarded(acc, madhab, weekday) ==
    IF madhab \in Madhab
    THEN IF weekday = "Fri"
         THEN [Push(acc, "FridayExclusive", "FridaySingledOut") EXCEPT !.status = "Makruh"]
         ELSE IF weekday = "Sat"
         THEN [Push(acc, "SaturdayExclusive", "SaturdaySingledOut") EXCEPT !.status = "Makruh"]
         ELSE acc
    ELSE acc

\* Makruh stage
StageMakruh(acc, madhab, weekday) ==
    IF acc.status = "Mubah" /\ madhab \in Madhab
    THEN IF weekday = "Fri"
         THEN [Push(acc, "FridayExclusive", "FridaySingledOut") EXCEPT !.status = "Makruh"]
         ELSE IF weekday = "Sat"
         THEN [Push(acc, "SaturdayExclusive", "SaturdaySingledOut") EXCEPT !.status = "Makruh"]
         ELSE acc
    ELSE acc

\* CustomStep that assigns the returned status without comparing
CustomStep_Assign(acc, rule, date, h) ==
    Bind(evaluate(rule, date, h[1], h[2], h[3]), LAMBDA r :
        IF r.some
        THEN [status |-> r.status,
              types  |-> Append(acc.types, r.type),
              traces |-> Append(acc.traces, RuleTrace("Custom", r.type))]
        ELSE acc)

\* CustomStep in which only the first matching rule may change the status
CustomStep_FirstWins(acc, rule, date, h) ==
    Bind(evaluate(rule, date, h[1], h[2], h[3]), LAMBDA r :
        IF r.some
        THEN [status |-> IF Rank(r.status) > Rank(acc.status)
                            /\ ~(\E i \in 1..Len(acc.traces) : acc.traces[i].code = "Custom")
                         THEN r.status ELSE acc.status,
              types  |-> Append(acc.types, r.type),
              traces |-> Append(acc.traces, RuleTrace("Custom", r.type))]
        ELSE acc)

\* one turn of the custom-rule loop
CustomStep(acc, rule, date, h) ==
    Bind(evaluate(rule, date, h[1], h[2], h[3]), LAMBDA r :
        IF r.some
        THEN [status |-> IF Rank(r.status) > Rank(acc.status) THEN r.status ELSE acc.status,
              types  |-> Append(acc.types, r.type),
              traces |-> Append(acc.traces, RuleTrace("Custom", r.type))]
        ELSE acc)

\* custom rules stage: the loop over context.custom_rules, in list order
RECURSIVE StageCustom(_, _, _, _)
StageCustom(acc, rules, date, h) ==
    IF rules = <<>> THEN acc
    ELSE Bind(CustomStep(acc, Head(rules), date, h), LAMBDA a :
              StageCustom(a, Tail(rules), date, h))

\* stages 4 to 8 on a day that is not Haram
BuiltinStages(acc, context, date, h) ==
    Bind(StageWajib(acc, h[2]), LAMBDA a4 :
    Bind(StageMuakkadah(a4, h[2], h[3]), LAMBDA a5 :
    Bind(StageSunnah(a5, h[2], h[3], WeekdayOf(date)), LAMBDA a6 :
         StageMakruh(a6, context.madhab, WeekdayOf(date)))))

\* what to_hijri was handed, when it was called
NoConv == [called |-> FALSE, date |-> 0, adjustment |-> 0, hit |-> FALSE]

\* analyze from the Hijri conversion on: eff is the effective date, hr the
\* outcome of to_hijri, t2 the traces pushed so far
AnalyzeRules(datetime, context, eff, hr, t2) ==
    Bind([called |-> TRUE, date |-> eff.date, adjustment |-> context.adjustment,
          hit |-> hr.hit],
         LAMBDA conv :
    IF hr.kind # "Ok"
    THEN [res |-> Failure(hr.kind, datetime, hr.err, <<>>),
          cache |-> hr.cache, conv |-> conv]
    ELSE Bind(HaramReason(hr.hijri[2], hr.hijri[3]), LAMBDA hreason :
         IF hreason # "None"
         THEN [res |-> with_traces(datetime, "Haram", <<hreason>>, hr.hijri,
                                   Append(t2, RuleTrace(hreason, "None"))),
               cache |-> hr.cache, conv |-> conv]
         ELSE Bind(BuiltinStages([status |-> "Mubah", types |-> <<>>, traces |-> t2],
                                 context, eff.date, hr.hijri), LAMBDA b :
              Bind(StageCustom(b, context.custom_rules, eff.date, hr.hijri), LAMBDA a :
                   [res |-> with_traces(datetime, a.status, a.types, hr.hijri, a.traces),
                    cache |-> hr.cache, conv |-> conv]))))

\* analyze from the strict-mode check on
AnalyzeFrom(c, datetime, context, eff) ==
    Bind(YearOf(eff.date) < HIJRI_MIN_YEAR \/ YearOf(eff.date) > HIJRI_MAX_YEAR,
         LAMBDA out :
    IF eff.kind = "Err" \/ (out /\ context.strict)
    THEN [res |-> Failure("Err", datetime, DateOutOfRange(eff.date), <<>>),
          cache |-> c, conv |-> NoConv]
    ELSE Bind(to_hijri(c, eff.date, context.adjustment), LAMBDA hr :
              AnalyzeRules(datetime, context, eff, hr,
                  (IF eff.rolled THEN <<RuleTrace("Debug", "PostMaghrib")>> ELSE <<>>)
                  \o (IF out THEN <<RuleTrace("Debug", "OutOfRangeClamping")>> ELSE <<>>))))

\* analyze(datetime, context, coords) run against memo slot c.
\* res is the returned value, cache the slot afterwards, conv what to_hijri
\* was handed.
analyze(c, datetime, context, coords) ==
    Bind(EffectiveDate(datetime, coords), LAMBDA eff :
         AnalyzeFrom(c, datetime, context, eff))

\* check(g_date, context): analyze at noon UTC without coordinates, with a
\* dummy Mubah analysis in place of an Err
check(c, g_date, context) ==
    Bind(analyze(c, [day |-> g_date, sec |-> 43200], context, NoCoords), LAMBDA a :
        IF a.res.kind = "Err"
        THEN [a EXCEPT !.res = FastingAnalysisNew([day |-> g_date, sec |-> 43200],
                                                  "Mubah", <<>>, <<1400, 1, 1>>)]
        ELSE a)

\* build that skips the strict-bounds validation
build_Unvalidated(b) ==
    LET adjustment == IF b.adjustment.some THEN b.adjustment.v ELSE 0
    IN  [kind |-> "Ok",
         ctx |-> [adjustment |-> Clamp30(adjustment),
                  madhab |-> IF b.madhab.some THEN b.madhab.v ELSE "Shafi",
                  daud_strategy |-> IF b.daud_strategy.some
                                    THEN b.daud_strategy.v ELSE "Skip",
                  strict |-> b.strict_mode,
                  custom_rules |-> b.custom_rules]]

\* RuleContextBuilder::build on a builder b; adjustment, madhab and
\* daud_strategy are Options ([some, v])
build(b) ==
    LET adjustment == IF b.adjustment.some THEN b.adjustment.v ELSE 0
    IN  IF b.strict_adjustment /\ (adjustment < -2 \/ adjustment > 2)
        THEN [kind |-> "InvalidConfiguration", ctx |-> DefaultContext]
        ELSE [kind |-> "Ok",
              ctx |-> [adjustment |-> Clamp30(adjustment),
                       madhab |-> IF b.madhab.some THEN b.madhab.v ELSE "Shafi",
                       daud_strategy |-> IF b.daud_strategy.some
                                         THEN b.daud_strategy.v ELSE "Skip",
                       strict |-> b.strict_mode,
                       custom_rules |-> b.custom_rules]]

----------------------------------------------------------------------------
(* Inputs of the model *)

\* adjustments handed to the setters: inside and outside [-30, 30] and [-2, 2]
AdjInputs == {-31, -1, 0, 3, 31}

\* Gregorian days around 1 Shawwal 1446, 8-14 Dhul-Hijjah 1446 (9 Dhul-Hijjah
\* is a Friday), 9-10 Muharram 1447, both ends of the supported range and
\* the last representable day
Dates ==
    (FromYmd(2025, 3, 29) .. FromYmd(2025, 4, 2))
    \cup (FromYmd(2025, 6, 5) .. FromYmd(2025, 6, 11))
    \cup (FromYmd(2025, 7, 5) .. FromYmd(2025, 7, 6))
    \cup {FromYmd(1937, 12, 31), FromYmd(1938, 1, 1),
          FromYmd(2076, 12, 31), FromYmd(2077, 1, 1), NaiveDateMax,
          FromYmd(2025, 3, 1), FromYmd(2025, 3, 13)}

\* instants of the day and observers: noon without coordinates; 18:00:00 and
\* 18:00:01 on the Greenwich meridian (sunset 18:00:00 UTC); noon at 105 E
\* (sunset 11:00 UTC); noon at 180 W (sunset 06:00 UTC of the following day,
\* which does not exist after NaiveDate::MAX)
Inputs ==
    {[sec |-> 43200, coords |-> NoCoords],
     [sec |-> 64800, coords |-> GeoCoordinate(0, 0)],
     [sec |-> 64801, coords |-> GeoCoordinate(0, 0)],
     [sec |-> 43200, coords |-> GeoCoordinate(-6, 105)],
     [sec |-> 43200, coords |-> GeoCoordinate(21, -180)]}

NoCall == [made |-> FALSE, op |-> "None", datetime |-> [day |-> 0, sec |-> 0], coords |-> NoCoords,
           conv |-> NoConv]

NoResult == Failure("None", [day |-> 0, sec |-> 0], NoErr, <<>>)

\* start is the first argument of DaudIterator::new, kept for reference
NoIter == [start |-> 0, current |-> 0, end |-> 0, should_fast |-> FALSE]

\* the threads of a multi-threaded run
Threads == {1, 2}

\* every memo slot empty; writer is the thread that stored the entry (0: none)
NoTls == [s \in Threads |-> [slot |-> NoCache, writer |-> 0]]

\* no thread is inside to_hijri
NoThreads ==
    [t \in Threads |->
        [pc |-> "idle", date |-> 0, adjustment |-> 0, hit |-> FALSE, saw |-> 0,
         ret |-> [kind |-> "None", hijri |-> <<0, 0, 0>>, gr |-> 0, err |-> NoErr]]]

\* no search is under way
NoSearch == [phase |-> "None"]

\* RuleContextBuilder::default(); adjustment, madhab and daud_strategy are
\* Options ([some, v])
NoBuilder ==
    [adjustment |-> [some |-> FALSE, v |-> 0],
     madhab |-> [some |-> FALSE, v |-> "Shafi"],
     daud_strategy |-> [some |-> FALSE, v |-> "Skip"],
     custom_rules |-> <<>>, strict_adjustment |-> FALSE, strict_mode |-> FALSE]

\* nothing was cloned
NoCopy == [made |-> FALSE]

\* no coordinate was constructed
NoGeo == [made |-> FALSE]

----------------------------------------------------------------------------
(* Building the context *)

Configuring == built = "Ok" /\ ~call.made /\ last = "None"

\* RuleContext::new
RuleContextNew ==
    /\ built = "InvalidConfiguration"
    /\ ctx' = DefaultContext
    /\ built' = "Ok"
    /\ UNCHANGED <<builder, copy, geo, tls, threads, search, call, result, cache, iter, emitted, last>>

\* RuleContext::adjustment(n)
CtxAdjustment(n) ==
    /\ Configuring
    /\ ctx' = [ctx EXCEPT !.adjustment = Clamp30(n)]
    /\ UNCHANGED <<builder, copy, geo, tls, threads, search, built, call, result, cache, iter, emitted, last>>

\* RuleContext::madhab(m)
CtxMadhab(m) ==
    /\ Configuring
    /\ ctx' = [ctx EXCEPT !.madhab = m]
    /\ UNCHANGED <<builder, copy, geo, tls, threads, search, built, call, result, cache, iter, emitted, last>>

\* RuleContext::daud_strategy(s)
CtxDaudStrategy(s) ==
    /\ Configuring
    /\ ctx' = [ctx EXCEPT !.daud_strategy = s]
    /\ UNCHANGED <<builder, copy, geo, tls, threads, search, built, call, result, cache, iter, emitted, last>>

\* RuleContext::strict(b)
CtxStrict(b) ==
    /\ Configuring
    /\ ctx' = [ctx EXCEPT !.strict = b]
    /\ UNCHANGED <<builder, copy, geo, tls, threads, search, built, call, result, cache, iter, emitted, last>>

\* RuleContext::with_moon_provider(FixedAdjustment(n), _): returns self as is
CtxWithMoonProvider(n) ==
    /\ Configuring
    /\ ctx' = ctx
    /\ UNCHANGED <<builder, copy, geo, tls, threads, search, built, call, result, cache, iter, emitted, last>>

\* a write to the public field, `ctx.adjustment = n`, which is also what the
\* derived Deserialize does with the stored number
AssignAdjustment(n) ==
    /\ Configuring
    /\ ctx' = [ctx EXCEPT !.adjustment = n]
    /\ UNCHANGED <<builder, copy, geo, tls, threads, search, built, call, result, cache, iter, emitted, last>>

\* ctx.custom_rules.push(rule)
PushCustomRule(rule) ==
    /\ Configuring
    /\ Len(ctx.custom_rules) < MaxRules
    /\ ctx' = [ctx EXCEPT !.custom_rules = Append(@, rule)]
    /\ UNCHANGED <<builder, copy, geo, tls, threads, search, built, call, result, cache, iter, emitted, last>>

\* RuleContextBuilder::new().adjustment(n).strict_adjustment(sa).madhab(m).build()
BuilderBuild(n, sa, m) ==
    /\ Configuring
    /\ LET r == build([adjustment |-> [some |-> TRUE, v |-> n],
                       madhab |-> [some |-> TRUE, v |-> m],
                       daud_strategy |-> [some |-> FALSE, v |-> "Skip"],
                       custom_rules |-> <<>>,
                       strict_adjustment |-> sa, strict_mode |-> FALSE])
       IN  ctx' = r.ctx /\ built' = r.kind
    /\ UNCHANGED <<builder, copy, geo, tls, threads, search, call, result, cache, iter, emitted, last>>

----------------------------------------------------------------------------
(* Calls of the rule engine *)

Running == built = "Ok" /\ result.kind # "Panic" /\ last = "None"

\* analyze(datetime, &ctx, coords); a context is analysed at one instant,
\* any number of times
Analyze(day, in) ==
    /\ Running
    /\ call.made => (call.datetime = [day |-> day, sec |-> in.sec] /\ call.coords = in.coords)
    /\ \E a \in {analyze(cache, [day |-> day, sec |-> in.sec], ctx, in.coords)} :
           /\ call' = [made |-> TRUE, op |-> "analyze",
                       datetime |-> [day |-> day, sec |-> in.sec],
                       coords |-> in.coords, conv |-> a.conv]
           /\ result' = a.res
           /\ cache' = a.cache
    /\ UNCHANGED <<builder, copy, geo, tls, threads, search, ctx, built, iter, emitted, last>>

\* check(g_date, &ctx)
Check(day) ==
    /\ Running
    /\ call.made => (call.datetime = [day |-> day, sec |-> 43200] /\ call.coords = NoCoords)
    /\ \E a \in {check(cache, day, ctx)} :
           /\ call' = [made |-> TRUE, op |-> "check",
                       datetime |-> [day |-> day, sec |-> 43200],
                       coords |-> NoCoords, conv |-> a.conv]
           /\ result' = a.res
           /\ cache' = a.cache
    /\ UNCHANGED <<builder, copy, geo, tls, threads, search, ctx, built, iter, emitted, last>>

InitAnalyze ==
    /\ ctx = DefaultContext
    /\ built = "Ok"
    /\ call = NoCall
    /\ result = NoResult
    /\ cache = NoCache
    /\ iter = NoIter
    /\ emitted = <<>>
    /\ last = "None"
    /\ tls = NoTls /\ threads = NoThreads /\ search = NoSearch
    /\ builder = NoBuilder /\ copy = NoCopy /\ geo = NoGeo

NextAnalyze ==
    \/ RuleContextNew
    \/ \E n \in AdjInputs : CtxAdjustment(n)
    \/ \E m \in Madhab : CtxMadhab(m)
    \/ \E b \in BOOLEAN : CtxStrict(b)
    \/ \E n \in AdjInputs : CtxWithMoonProvider(n)
    \/ \E n \in AdjInputs : AssignAdjustment(n)
    \/ \E r \in CustomRuleSet : PushCustomRule(r)
    \/ \E n \in AdjInputs, sa \in BOOLEAN, m \in Madhab : BuilderBuild(n, sa, m)
    \/ \E d \in Dates, in \in Inputs : Analyze(d, in)
    \/ \E d \in Dates : Check(d)

SpecAnalyze == InitAnalyze /\ [][NextAnalyze]_vars

----------------------------------------------------------------------------
(* src/src/lib.rs: DaudIterator *)

\* DaudFlip in which a Haram date never costs the turn
DaudFlip_NeverForfeit(strategy, is_haram, should_fast) ==
    IF is_haram THEN should_fast ELSE ~should_fast

\* DaudFlip in which every visited date flips the turn
DaudFlip_AlwaysFlip(strategy, is_haram, should_fast) == ~should_fast

\* should_fast after the visit of one date
DaudFlip(strategy, is_haram, should_fast) ==
    IF is_haram
    THEN IF strategy = "Skip" THEN ~should_fast ELSE should_fast
    ELSE ~should_fast

\* DaudEmits without the Haram test
DaudEmits_IgnoreHaram(is_haram, should_fast) == should_fast

\* whether the visit of one date returns it
DaudEmits(is_haram, should_fast) == ~is_haram /\ should_fast

\* contexts handed to generate_daud_schedule
DaudContexts ==
    {[adjustment |-> a, madhab |-> m, daud_strategy |-> s, strict |-> st,
      custom_rules |-> r] :
        a \in {-1, 0, 30}, m \in {"Shafi", "Hanbali"}, s \in DaudStrategy,
        st \in BOOLEAN,
        r \in UNION {[1..n -> CustomRuleSet] : n \in 0..MaxRules}}

Iterating == last \in {"New", "Continue", "Some", "Done"}

\* next(): `while self.current <= self.end` is false, None is returned
DaudEnd ==
    /\ Iterating
    /\ iter.current > iter.end
    /\ last' = "Done"
    /\ UNCHANGED <<builder, copy, geo, tls, threads, search, ctx, built, call, result, cache, iter, emitted>>

\* next(): the check of the loop body panics
DaudPanic ==
    /\ Iterating
    /\ iter.current <= iter.end
    /\ \E analysis \in {check(cache, iter.current, ctx)} :
          /\ analysis.res.kind = "Panic"
          /\ last' = "Panic"
          /\ cache' = analysis.cache
    /\ UNCHANGED <<builder, copy, geo, tls, threads, search, ctx, built, call, result, iter, emitted>>

\* next(): `self.current.succ_opt()?` returns None from next
DaudOverflow ==
    /\ Iterating
    /\ iter.current <= iter.end
    /\ SuccOpt(iter.current) = -1
    /\ \E analysis \in {check(cache, iter.current, ctx)} :
          /\ analysis.res.kind # "Panic"
          /\ last' = "Done"
          /\ cache' = analysis.cache
    /\ UNCHANGED <<builder, copy, geo, tls, threads, search, ctx, built, call, result, iter, emitted>>

\* next(): one turn of the loop on a date that has a successor
DaudVisit ==
    /\ Iterating
    /\ iter.current <= iter.end
    /\ SuccOpt(iter.current) # -1
    /\ \E analysis \in {check(cache, iter.current, ctx)} :
          /\ analysis.res.kind # "Panic"
          /\ \E is_haram \in {analysis.res.status = "Haram"} :
                /\ iter' = [iter EXCEPT
                              !.current = SuccOpt(iter.current),
                              !.should_fast = DaudFlip(ctx.daud_strategy, is_haram,
                                                       iter.should_fast)]
                /\ IF DaudEmits(is_haram, iter.should_fast)
                   THEN emitted' = Append(emitted, iter.current) /\ last' = "Some"
                   ELSE emitted' = emitted /\ last' = "Continue"
          /\ cache' = analysis.cache
    /\ UNCHANGED <<builder, copy, geo, tls, threads, search, ctx, built, call, result>>

\* generate_daud_schedule(start, end, context) = DaudIterator::new
InitDaud ==
    /\ ctx \in DaudContexts
    /\ built = "Ok"
    /\ call = NoCall
    /\ result = NoResult
    /\ cache = NoCache
    /\ \E start \in Dates :
         \E end \in (start - 1) .. (start + MaxWindow) :
            /\ end <= NaiveDateMax
            /\ iter = [start |-> start, current |-> start, end |-> end, should_fast |-> TRUE]
    /\ emitted = <<>>
    /\ last = "New"
    /\ tls = NoTls /\ threads = NoThreads /\ search = NoSearch
    /\ builder = NoBuilder /\ copy = NoCopy /\ geo = NoGeo

NextDaud == DaudEnd \/ DaudPanic \/ DaudOverflow \/ DaudVisit

SpecDaud == InitDaud /\ [][NextDaud]_vars

----------------------------------------------------------------------------
(* Shared vocabulary of the properties *)

\* the latest call was analyze and it returned Ok(analysis)
Analysed == call.made /\ call.op = "analyze" /\ result.kind = "Ok"

\* the effective date of the latest call
EffDay == EffectiveDate(call.datetime, call.coords).date

\* the days on which fasting is forbidden, by Hijri month and day
IsHaramDay(h) == (h[2] = 10 /\ h[3] = 1) \/ (h[2] = 12 /\ h[3] \in 10..13)

\* the elements of a sequence
Range(s) == {s[i] : i \in 1..Len(s)}

\* the trace entries that are not Debug notices
RuleTraces(traces) == SelectSeq(traces, LAMBDA t : t.code # "Debug")

----------------------------------------------------------------------------
(* C1 *)

\* C1: when the Hijri date of the effective day is 1 Shawwal, 10 Dhul-Hijjah
\* or 11-13 Dhul-Hijjah, analyze returns Haram with exactly one reason
\* (EidAlFitr, EidAlAdha, Tashriq) and exactly one rule trace, which is the
\* last trace entry: no later stage added a reason or a trace.
C1_HaramTerminates ==
    (Analysed /\ IsHaramDay(FromGr(EffDay + ctx.adjustment))) =>
        LET h == FromGr(EffDay + ctx.adjustment)
            reason == IF h[2] = 10 THEN "EidAlFitr"
                      ELSE IF h[3] = 10 THEN "EidAlAdha" ELSE "Tashriq"
        IN  /\ result.status = "Haram"
            /\ result.hijri = h
            /\ result.reasons = <<reason>>
            /\ RuleTraces(result.traces) = <<RuleTrace(reason, "None")>>
            /\ result.traces[Len(result.traces)] = RuleTrace(reason, "None")

\* a Tashriq day analysed after sunset under a context with two custom rules
C1_Witness ==
    /\ Analysed
    /\ result.hijri[2] = 12 /\ result.hijri[3] = 13
    /\ Len(ctx.custom_rules) = 2
    /\ Len(result.traces) = 2
    /\ result.status = "Haram"

----------------------------------------------------------------------------
(* C2 *)

\* some registered custom rule returns Haram for the analysed day
CustomHaramApplies ==
    \E i \in 1..Len(ctx.custom_rules) :
        LET r == evaluate(ctx.custom_rules[i], EffDay,
                          result.hijri[1], result.hijri[2], result.hijri[3])
        IN  r.some /\ r.status = "Haram"

\* C2 as stated: whenever the Hijri month is 9, for every context, the
\* status is exactly Wajib and the reasons contain Ramadhan.
C2_RamadhanExactlyWajib ==
    (Analysed /\ FromGr(EffDay + ctx.adjustment)[2] = 9) =>
        (result.status = "Wajib" /\ "Ramadhan" \in Range(result.reasons))

\* C2 amended: whenever the Hijri month is 9 the reasons contain Ramadhan
\* and the status is Wajib, unless a registered custom rule returns Haram
\* for that day, in which case the status is Haram.
C2_RamadhanWajibUnlessCustomHaram ==
    (Analysed /\ FromGr(EffDay + ctx.adjustment)[2] = 9) =>
        /\ "Ramadhan" \in Range(result.reasons)
        /\ result.reasons[1] = "Ramadhan"
        /\ result.status = (IF CustomHaramApplies THEN "Haram" ELSE "Wajib")

\* a Monday of Ramadhan analysed under a context with a custom Sunnah rule
C2_Witness ==
    /\ Analysed
    /\ result.hijri[2] = 9
    /\ result.status = "Wajib"
    /\ "Monday" \in Range(result.reasons)
    /\ "CustomSunnah" \in Range(result.reasons)

----------------------------------------------------------------------------
(* C6 *)

\* a reason of stages 4 to 6 applies to Hijri day h falling on weekday wd
AppliesStage4To6(h, wd) ==
    \/ h[2] = 9
    \/ (h[2] = 12 /\ h[3] = 9)
    \/ (h[2] = 1 /\ h[3] \in {9, 10})
    \/ h[3] \in 13..15
    \/ wd \in {"Mon", "Thu"}
    \/ (h[2] = 10 /\ h[3] >= 2)

Stage4To6Reasons ==
    {"Ramadhan", "Arafah", "Ashura", "Tasua", "AyyamulBidh", "Monday", "Thursday",
     "Shawwal"}

MakruhReasons == {"FridayExclusive", "SaturdayExclusive"}

\* C6: the Makruh stage never fires on a day to which a stage 4-6 reason
\* applies: such a day is never Makruh and never carries FridayExclusive or
\* SaturdayExclusive; a Makruh result or one with those reasons carries no
\* stage 4-6 reason; a Friday that is 9 Dhul-Hijjah is SunnahMuakkadah when
\* no custom rule is registered.
C6_MakruhOnlyOnBareDays ==
    Analysed =>
        LET h  == result.hijri
            wd == WeekdayOf(EffDay)
        IN  /\ AppliesStage4To6(h, wd) =>
                 /\ result.status # "Makruh"
                 /\ Range(result.reasons) \cap MakruhReasons = {}
            /\ (result.status = "Makruh" \/ Range(result.reasons) \cap MakruhReasons # {}) =>
                 Range(result.reasons) \cap Stage4To6Reasons = {}
            /\ (h[2] = 12 /\ h[3] = 9 /\ wd = "Fri" /\ ctx.custom_rules = <<>>) =>
                 result.status = "SunnahMuakkadah"

\* 9 Dhul-Hijjah on a Friday, no custom rule
C6_Witness ==
    /\ Analysed
    /\ result.hijri[2] = 12 /\ result.hijri[3] = 9
    /\ WeekdayOf(EffDay) = "Fri"
    /\ ctx.custom_rules = <<>>
    /\ result.status = "SunnahMuakkadah"
    /\ result.reasons = <<"Arafah">>

----------------------------------------------------------------------------
(* C7 *)

\* the analysis of the same instant under the same context without its
\* custom rules
BuiltinResult ==
    analyze(NoCache, call.datetime, [ctx EXCEPT !.custom_rules = <<>>], call.coords).res

\* the ranks of the statuses the registered custom rules return for the day
CustomRanks ==
    {Rank(evaluate(ctx.custom_rules[i], EffDay,
                   result.hijri[1], result.hijri[2], result.hijri[3]).status) :
        i \in {k \in 1..Len(ctx.custom_rules) :
                 evaluate(ctx.custom_rules[k], EffDay,
                          result.hijri[1], result.hijri[2], result.hijri[3]).some}}

MaxOf(S) == CHOOSE x \in S : \A y \in S : y <= x

\* C7: on a day that the Haram stage does not stop, the final status is the
\* maximum of the status computed without custom rules and of the statuses
\* the custom rules return, so it is never below the built-in status.
C7_CustomRulesOnlyRaise ==
    (Analysed /\ ~IsHaramDay(result.hijri)) =>
        \A base \in {BuiltinResult} :
            /\ base.kind = "Ok"
            /\ Rank(result.status) = MaxOf({Rank(base.status)} \cup CustomRanks)
            /\ Rank(result.status) >= Rank(base.status)

\* a Wajib day on which a custom rule returned Sunnah
C7_Witness ==
    /\ Analysed
    /\ result.hijri[2] = 9
    /\ ctx.custom_rules = <<CustomSunnah>>
    /\ "CustomSunnah" \in Range(result.reasons)
    /\ result.status = "Wajib"

----------------------------------------------------------------------------
(* C8 *)

\* the orders in which the registered custom rules could have been registered
Reorderings(rules) ==
    {[i \in 1..Len(rules) |-> rules[f[i]]] :
        f \in {g \in [1..Len(rules) -> 1..Len(rules)] :
                 \A a, b \in 1..Len(rules) : a # b => g[a] # g[b]}}

\* how often x occurs in sequence q
Count(q, x) == Cardinality({i \in 1..Len(q) : q[i] = x})

SameElements(q1, q2) ==
    /\ Len(q1) = Len(q2)
    /\ \A x \in Range(q1) \cup Range(q2) : Count(q1, x) = Count(q2, x)

\* C8 as stated: any other registration order of the same custom rules gives
\* an equal result.
C8_OrderNeverChangesResult ==
    Analysed =>
        \A p \in Reorderings(ctx.custom_rules) :
            analyze(NoCache, call.datetime, [ctx EXCEPT !.custom_rules = p],
                    call.coords).res = result

\* C8 amended: any other registration order of the same custom rules gives
\* the same status, Hijri triple and date, and the same reasons and trace
\* entries up to their order (the custom reasons follow registration order).
C8_OrderNeverChangesStatus ==
    Analysed =>
        \A p \in Reorderings(ctx.custom_rules) :
            \A other \in {analyze(NoCache, call.datetime,
                                  [ctx EXCEPT !.custom_rules = p], call.coords).res} :
                /\ other.kind = "Ok"
                /\ other.status = result.status
                /\ other.hijri = result.hijri
                /\ other.date = result.date
                /\ SameElements(other.reasons, result.reasons)
                /\ SameElements(other.traces, result.traces)

\* two different custom rules that both matched, the lower status first
C8_Witness ==
    /\ Analysed
    /\ ctx.custom_rules = <<CustomSunnah, CustomHaram>>
    /\ {"CustomSunnah", "CustomHaram"} \subseteq Range(result.reasons)
    /\ result.status = "Haram"

----------------------------------------------------------------------------
(* C9 *)

\* C9: the adjustment analyze hands to to_hijri lies in [-30, 30], however
\* the context was obtained.
C9_AdjustmentClamped ==
    call.conv.called => (call.conv.adjustment >= -30 /\ call.conv.adjustment <= 30)

----------------------------------------------------------------------------
(* C10 *)

\* C10: with context.strict = false, analyze returns an analysis for every
\* instant, adjustment and coordinates; an effective date outside 1938-2076
\* carries the clamp notice in its trace.
C10_LenientIsTotal ==
    (call.made /\ call.op = "analyze" /\ ~ctx.strict) =>
        /\ result.kind = "Ok"
        /\ (YearOf(EffDay) < HIJRI_MIN_YEAR \/ YearOf(EffDay) > HIJRI_MAX_YEAR) =>
              RuleTrace("Debug", "OutOfRangeClamping") \in Range(result.traces)

----------------------------------------------------------------------------
(* C3 *)

\* the status the rule engine gives day d on its own, at noon UTC, under ctx
StatusOf(d) == analyze(NoCache, [day |-> d, sec |-> 43200], ctx, NoCoords).res.status

\* C3: no date returned by DaudIterator::next is Haram when the rule engine
\* analyses that date on its own under the same context.
C3_DaudNeverEmitsHaram ==
    \A i \in 1..Len(emitted) : StatusOf(emitted[i]) # "Haram"

\* two dates were returned and a Haram day lies between them
C3_Witness ==
    /\ Len(emitted) = 2
    /\ \E d \in (emitted[1] + 1) .. (emitted[2] - 1) : StatusOf(d) = "Haram"

----------------------------------------------------------------------------
(* C4 and C5 *)

\* day d is 1 Shawwal under the adjustment of ctx
OnOneShawwal(d) ==
    /\ YearOf(d) >= HIJRI_MIN_YEAR /\ YearOf(d) <= HIJRI_MAX_YEAR
    /\ YearOf(d + ctx.adjustment) >= HIJRI_MIN_YEAR
    /\ YearOf(d + ctx.adjustment) <= HIJRI_MAX_YEAR
    /\ FromGr(d + ctx.adjustment)[2] = 10
    /\ FromGr(d + ctx.adjustment)[3] = 1

\* no registered custom rule returns Haram for day d
NoCustomHaramOn(d) ==
    \A i \in 1..Len(ctx.custom_rules) :
        LET h == FromGr(d + ctx.adjustment)
            r == evaluate(ctx.custom_rules[i], d, h[1], h[2], h[3])
        IN  ~(r.some /\ r.status = "Haram")

\* the step is the visit of a Haram date by the loop of next()
HaramVisit ==
    /\ iter'.current # iter.current
    /\ check(cache, iter.current, ctx).res.status = "Haram"

\* the schedule started on 1 Shawwal and its cursor is past the third day
PastDayTwoAfterEid ==
    /\ OnOneShawwal(iter.start)
    /\ NoCustomHaramOn(iter.start + 1) /\ NoCustomHaramOn(iter.start + 2)
    /\ iter.current > iter.start + 2

\* C4: under DaudStrategy::Skip the visit of a Haram date flips should_fast
\* and returns nothing; a schedule that starts on 1 Shawwal returns neither
\* day 0 nor day 1 and returns day 2.
C4_SkipForfeitsTurn ==
    /\ [][(ctx.daud_strategy = "Skip" /\ HaramVisit) =>
            /\ iter'.should_fast = ~iter.should_fast
            /\ iter'.current = iter.current + 1
            /\ emitted' = emitted /\ last' = "Continue"]_vars
    /\ []((ctx.daud_strategy = "Skip" /\ PastDayTwoAfterEid) =>
            /\ iter.start \notin Range(emitted)
            /\ (iter.start + 1) \notin Range(emitted)
            /\ (iter.start + 2) \in Range(emitted))

\* a Skip schedule over the five days after 1 Shawwal has ended
C4_Witness ==
    /\ ctx.daud_strategy = "Skip"
    /\ OnOneShawwal(iter.start)
    /\ iter.end = iter.start + 5
    /\ last = "Done"
    /\ emitted = <<iter.start + 2, iter.start + 4>>

\* C5: under DaudStrategy::Postpone the visit of a Haram date leaves
\* should_fast unchanged and returns nothing; a schedule that starts on
\* 1 Shawwal does not return day 0, returns day 1 and does not return day 2.
C5_PostponeKeepsTurn ==
    /\ [][(ctx.daud_strategy = "Postpone" /\ HaramVisit) =>
            /\ iter'.should_fast = iter.should_fast
            /\ iter'.current = iter.current + 1
            /\ emitted' = emitted /\ last' = "Continue"]_vars
    /\ []((ctx.daud_strategy = "Postpone" /\ PastDayTwoAfterEid) =>
            /\ iter.start \notin Range(emitted)
            /\ (iter.start + 1) \in Range(emitted)
            /\ (iter.start + 2) \notin Range(emitted))

\* a Postpone schedule over the five days after 1 Shawwal has ended
C5_Witness ==
    /\ ctx.daud_strategy = "Postpone"
    /\ OnOneShawwal(iter.start)
    /\ iter.end = iter.start + 5
    /\ last = "Done"
    /\ emitted = <<iter.start + 1, iter.start + 3, iter.start + 5>>

----------------------------------------------------------------------------
(* C11 *)

\* the Gregorian year of day d lies outside the supported range
YearOutOfRange(d) == YearOf(d) < HIJRI_MIN_YEAR \/ YearOf(d) > HIJRI_MAX_YEAR

\* C11: with context.strict = true, analyze returns DateOutOfRange exactly
\* when the year of the effective date shifted by context.adjustment days
\* lies outside [1938, 2076], and returns an analysis otherwise.
C11_StrictRangeOnAdjustedDate ==
    (call.made /\ call.op = "analyze" /\ ctx.strict) =>
        IF YearOutOfRange(EffDay + ctx.adjustment)
        THEN result.kind = "Err" /\ result.err.type = "DateOutOfRange"
        ELSE result.kind = "Ok"

----------------------------------------------------------------------------
(* Sequences of calls that share the memo slot of one thread *)

\* days before, at and after both ends of the supported range, a negative
\* year, 30 Ramadan and 1 Shawwal 1446, and the last representable day
MemoDates ==
    {FromYmd(-500, 1, 1), FromYmd(1937, 12, 31), FromYmd(1938, 1, 1),
     FromYmd(2025, 3, 30), FromYmd(2025, 3, 31),
     FromYmd(2076, 12, 31), FromYmd(2077, 1, 1), NaiveDateMax}

MemoAdjustments == {-1, 0, 1}

MemoContexts ==
    {DefaultContext,
     [DefaultContext EXCEPT !.adjustment = 1],
     [DefaultContext EXCEPT !.adjustment = -1, !.strict = TRUE],
     [DefaultContext EXCEPT !.custom_rules = <<CustomSunnah>>]}

MemoInputs ==
    {[sec |-> 43200, coords |-> NoCoords],
     [sec |-> 64801, coords |-> GeoCoordinate(0, 0)]}

\* what to_hijri returns to its caller
Returned(r) == [kind |-> r.kind, hijri |-> r.hijri, gr |-> r.gr, err |-> r.err]

\* to_hijri(date, adjustment)
ToHijri(date, adjustment) ==
    /\ result.kind # "Panic"
    /\ \E r \in {to_hijri(cache, date, adjustment)} :
           /\ call' = [made |-> TRUE, op |-> "to_hijri",
                       datetime |-> [day |-> date, sec |-> 0], coords |-> NoCoords,
                       conv |-> [called |-> TRUE, date |-> date,
                                 adjustment |-> adjustment, hit |-> r.hit]]
           /\ result' = Returned(r)
           /\ cache' = r.cache
    /\ UNCHANGED <<builder, copy, geo, tls, threads, search, ctx, built, iter, emitted, last>>

\* analyze(datetime, &context, coords) with any context
MemoAnalyze(context, day, in) ==
    /\ result.kind # "Panic"
    /\ \E a \in {analyze(cache, [day |-> day, sec |-> in.sec], context, in.coords)} :
           /\ call' = [made |-> TRUE, op |-> "analyze",
                       datetime |-> [day |-> day, sec |-> in.sec],
                       coords |-> in.coords, conv |-> a.conv]
           /\ result' = a.res
           /\ cache' = a.cache
    /\ ctx' = context
    /\ UNCHANGED <<builder, copy, geo, tls, threads, search, built, iter, emitted, last>>

NextHijri ==
    \/ \E d \in MemoDates, n \in MemoAdjustments : ToHijri(d, n)
    \/ \E c \in MemoContexts, d \in MemoDates, in \in MemoInputs : MemoAnalyze(c, d, in)

SpecHijri == InitAnalyze /\ [][NextHijri]_vars

----------------------------------------------------------------------------
(* C12 *)

\* C12: to_hijri(date, adjustment) returns DateOutOfRange, carrying the
\* adjusted date with min 1938-01-01 and max 2076-12-31, for every input
\* whose adjusted year is below 1938 or above 2076, and succeeds otherwise,
\* whatever the memo slot holds.
C12_ToHijriRangeError ==
    (call.made /\ call.op = "to_hijri") =>
        IF YearOutOfRange(call.conv.date + call.conv.adjustment)
        THEN /\ result.kind = "Err"
             /\ result.err = [type |-> "DateOutOfRange",
                              date |-> call.conv.date + call.conv.adjustment,
                              min |-> FromYmd(1938, 1, 1), max |-> FromYmd(2076, 12, 31)]
        ELSE result.kind = "Ok"

\* the same for the inputs whose adjusted date is a representable date
C12_ToHijriRangeErrorRepresentable ==
    (call.made /\ call.op = "to_hijri"
       /\ call.conv.date + call.conv.adjustment <= NaiveDateMax) =>
        C12_ToHijriRangeError

----------------------------------------------------------------------------
(* C13 *)

\* C13: whatever calls came before, a call of to_hijri or analyze returns
\* exactly what the same call returns in a run with an empty memo slot.
C13_MemoNeverChangesOutput ==
    call.made =>
        IF call.op = "to_hijri"
        THEN result = Returned(to_hijri(NoCache, call.conv.date, call.conv.adjustment))
        ELSE result = analyze(NoCache, call.datetime, ctx, call.coords).res

\* the latest call was answered from the memo slot
C13_Witness ==
    /\ call.made /\ call.conv.called /\ call.conv.hit
    /\ result.kind = "Ok"

----------------------------------------------------------------------------
(* to_hijri called from several threads *)

\* the slot HIJRI_CACHE.with hands to thread t, as if the single slot of
\* the process were shared by every thread
SlotOf_Shared(t) == 1

\* the slot HIJRI_CACHE.with hands to thread t: thread_local! gives every
\* thread a slot of its own
SlotOf(t) == t

ThreadDates == {FromYmd(2025, 3, 30), FromYmd(2025, 3, 31), FromYmd(2077, 1, 1)}

ThreadAdjustments == {0, 1}

\* thread t enters to_hijri(date, adjustment)
ThreadCall(t, date, adjustment) ==
    /\ threads[t].pc = "idle"
    /\ threads' = [threads EXCEPT ![t] =
           [@ EXCEPT !.pc = "lookup", !.date = date, !.adjustment = adjustment,
                     !.hit = FALSE, !.saw = 0]]
    /\ UNCHANGED <<builder, copy, geo, ctx, built, call, result, cache, iter, emitted, last, tls, search>>

\* thread t reads its slot; on a hit it rebuilds the date and returns
ThreadLookup(t) ==
    /\ threads[t].pc = "lookup"
    /\ \E e \in {tls[SlotOf(t)]} :
       \E r \in {to_hijri(e.slot, threads[t].date, threads[t].adjustment)} :
           threads' = [threads EXCEPT ![t] =
               IF r.hit
               THEN [@ EXCEPT !.pc = "done", !.hit = TRUE, !.saw = e.writer,
                              !.ret = Returned(r)]
               ELSE [@ EXCEPT !.pc = "convert", !.saw = e.writer]]
    /\ UNCHANGED <<builder, copy, geo, ctx, built, call, result, cache, iter, emitted, last, tls, search>>

\* thread t converts the adjusted date and, on success, overwrites its slot
ThreadConvert(t) ==
    /\ threads[t].pc = "convert"
    /\ \E e \in {tls[SlotOf(t)]} :
       \E r \in {to_hijri(NoCache, threads[t].date, threads[t].adjustment)} :
           /\ threads' = [threads EXCEPT ![t] =
                  [@ EXCEPT !.pc = IF r.kind = "Panic" THEN "panicked" ELSE "done",
                            !.saw = IF r.kind = "Ok" THEN e.writer ELSE @,
                            !.ret = Returned(r)]]
           /\ tls' = IF r.kind = "Ok"
                     THEN [tls EXCEPT ![SlotOf(t)] = [slot |-> r.cache, writer |-> t]]
                     ELSE tls
    /\ UNCHANGED <<builder, copy, geo, ctx, built, call, result, cache, iter, emitted, last, search>>

\* the caller on thread t takes the returned value
ThreadReturn(t) ==
    /\ threads[t].pc = "done"
    /\ threads' = [threads EXCEPT ![t] = [@ EXCEPT !.pc = "idle"]]
    /\ UNCHANGED <<builder, copy, geo, ctx, built, call, result, cache, iter, emitted, last, tls, search>>

NextThreads ==
    \/ \E t \in Threads, d \in ThreadDates, n \in ThreadAdjustments : ThreadCall(t, d, n)
    \/ \E t \in Threads : ThreadLookup(t)
    \/ \E t \in Threads : ThreadConvert(t)
    \/ \E t \in Threads : ThreadReturn(t)

SpecThreads == InitAnalyze /\ [][NextThreads]_vars

----------------------------------------------------------------------------
(* C14 *)

\* C14: under every interleaving of to_hijri calls from several threads, a
\* call neither reads nor overwrites an entry stored by another thread, and
\* it returns what the same call returns in a sequential run.
C14_MemoSlotPerThread ==
    \A t \in Threads :
        /\ threads[t].saw \in {0, t}
        /\ threads[t].pc = "done" =>
              threads[t].ret =
                  Returned(to_hijri(NoCache, threads[t].date, threads[t].adjustment))

\* a thread was answered from its own slot while another thread is between
\* its lookup and its store and the two slots hold different entries
C14_Witness ==
    \E t \in Threads, u \in Threads :
        /\ t # u
        /\ threads[t].pc = "done" /\ threads[t].hit /\ threads[t].saw = t
        /\ threads[u].pc = "convert"
        /\ tls[SlotOf(u)].writer = u
        /\ tls[SlotOf(u)].slot # tls[SlotOf(t)].slot

----------------------------------------------------------------------------
(* src/src/astronomy/prayer.rs *)
(* Instants of a search are seconds counted from 00:00:00 UTC of its date. *)

\* the sun's altitude minus the target altitude at second s, in a unit that
\* keeps it an integer, for a day described by sky: the sun rises through
\* the target at second sky.x, sets through it at sky.x, stays above or
\* below it all day, or dips below it for sky.d seconds around sky.x
Altitude(sky, s) ==
    CASE sky.kind = "Rising"  -> s - sky.x
      [] sky.kind = "Setting" -> sky.x - s
      [] sky.kind = "Above"   -> 1
      [] sky.kind = "Below"   -> -1
      [] sky.kind = "Dip"     -> (IF s >= sky.x THEN s - sky.x ELSE sky.x - s) - sky.d

\* the number of iterations of the binary search
Iterations == 20

\* the initial search bounds
Window(is_morning) ==
    IF is_morning THEN [low |-> 0, high |-> 12 * 3600]
    ELSE [low |-> 12 * 3600, high |-> 24 * 3600]

\* a midpoint a quarter of the way up the bracket
Mid_Quarter(low, high) == low + ((high - low) \div 4)

\* low + Duration::seconds((high - low).num_seconds() / 2)
Mid(low, high) == low + ((high - low) \div 2)

\* Halve whose evening search compares like the morning search
Halve_MorningOnly(sky, is_morning, b) ==
    Bind(Mid(b.low, b.high), LAMBDA mid :
    Bind(Altitude(sky, mid), LAMBDA sun_alt :
        IF sun_alt < 0 THEN [b EXCEPT !.low = mid] ELSE [b EXCEPT !.high = mid]))

\* one iteration of the loop on the bracket b
Halve(sky, is_morning, b) ==
    Bind(Mid(b.low, b.high), LAMBDA mid :
    Bind(Altitude(sky, mid), LAMBDA sun_alt :
        IF is_morning
        THEN IF sun_alt < 0 THEN [b EXCEPT !.low = mid] ELSE [b EXCEPT !.high = mid]
        ELSE IF sun_alt > 0 THEN [b EXCEPT !.low = mid] ELSE [b EXCEPT !.high = mid]))

RECURSIVE Bisect(_, _, _, _)
\* the bracket after n iterations
Bisect(sky, is_morning, b, n) ==
    IF n = 0 THEN b ELSE Bisect(sky, is_morning, Halve(sky, is_morning, b), n - 1)

\* find_sun_altitude_time(date, coords, target_altitude, is_morning)
find_sun_altitude_time(sky, is_morning) ==
    Bind(Bisect(sky, is_morning, Window(is_morning), Iterations), LAMBDA b :
         Mid(b.low, b.high))

\* estimate_sunset(date, coords)
estimate_sunset(sky) == sky.sunset

\* calculate_prayer_times with imsak = fajr - Duration::seconds(buffer)
calculate_prayer_times_BufferSeconds(sky, params) ==
    Bind(find_sun_altitude_time(sky, TRUE), LAMBDA fajr :
         [imsak |-> fajr - params.imsak_buffer_minutes,
          fajr |-> fajr, maghrib |-> estimate_sunset(sky)])

\* calculate_prayer_times(date, coords, params)
calculate_prayer_times(sky, params) ==
    Bind(find_sun_altitude_time(sky, TRUE), LAMBDA fajr :
         [imsak |-> fajr - 60 * params.imsak_buffer_minutes,
          fajr |-> fajr, maghrib |-> estimate_sunset(sky)])

----------------------------------------------------------------------------
(* Calls of the prayer-time module *)

\* days of the model: the sun crosses the target at the start, inside and at
\* the end of a search window, never reaches it, or crosses it twice
Skies ==
    {[kind |-> "Rising", x |-> x, d |-> 0, sunset |-> 39600] :
         x \in {0, 1, 12345, 21600, 43199, 43200}}
    \cup {[kind |-> "Setting", x |-> x, d |-> 0, sunset |-> 39600] :
         x \in {43200, 43201, 60000, 86400}}
    \cup {[kind |-> k, x |-> 0, d |-> 0, sunset |-> 39600] : k \in {"Above", "Below"}}
    \cup {[kind |-> "Dip", x |-> 20000, d |-> 3000, sunset |-> 39600]}

\* imsak_buffer_minutes of the parameter sets
Buffers == {0, 10, 15}

\* find_sun_altitude_time is entered: the initial search bounds are set
SearchBegin(sky, is_morning) ==
    /\ search.phase = "None"
    /\ search' = [phase |-> "Loop", sky |-> sky, is_morning |-> is_morning,
                  low |-> Window(is_morning).low, high |-> Window(is_morning).high,
                  step |-> 0]
    /\ UNCHANGED <<builder, copy, geo, ctx, built, call, result, cache, iter, emitted, last, tls, threads>>

\* one iteration of `for _ in 0..20`
SearchIterate ==
    /\ search.phase = "Loop"
    /\ search.step < Iterations
    /\ \E b \in {Halve(search.sky, search.is_morning,
                       [low |-> search.low, high |-> search.high])} :
           search' = [search EXCEPT !.low = b.low, !.high = b.high, !.step = @ + 1]
    /\ UNCHANGED <<builder, copy, geo, ctx, built, call, result, cache, iter, emitted, last, tls, threads>>

\* the loop is over: the midpoint of the final range is returned
SearchReturn ==
    /\ search.phase = "Loop"
    /\ search.step = Iterations
    /\ search' = [phase |-> "Returned", sky |-> search.sky,
                  is_morning |-> search.is_morning,
                  low |-> search.low, high |-> search.high, step |-> search.step,
                  ret |-> [kind |-> "DateTime", at |-> Mid(search.low, search.high)]]
    /\ UNCHANGED <<builder, copy, geo, ctx, built, call, result, cache, iter, emitted, last, tls, threads>>

\* calculate_prayer_times(date, coords, params)
CalculatePrayerTimes(sky, buffer) ==
    /\ search.phase = "None"
    /\ search' = [phase |-> "Times", sky |-> sky, is_morning |-> TRUE,
                  params |-> [imsak_buffer_minutes |-> buffer],
                  ret |-> [kind |-> "PrayerTimes",
                           times |-> calculate_prayer_times(sky,
                                        [imsak_buffer_minutes |-> buffer])]]
    /\ UNCHANGED <<builder, copy, geo, ctx, built, call, result, cache, iter, emitted, last, tls, threads>>

NextPrayer ==
    \/ \E sky \in Skies, is_morning \in BOOLEAN : SearchBegin(sky, is_morning)
    \/ SearchIterate
    \/ SearchReturn
    \/ \E sky \in Skies, b \in Buffers : CalculatePrayerTimes(sky, b)

SpecPrayer == InitAnalyze /\ [][NextPrayer]_vars

\* a call that has started runs on: the loop is sequential code
SpecPrayerFair == SpecPrayer /\ WF_vars(SearchIterate) /\ WF_vars(SearchReturn)

----------------------------------------------------------------------------
(* C15 *)

\* the altitude at the start and at the end of the search window lie on the
\* same side of the target
SameSide(sky, is_morning) ==
    LET a == Altitude(sky, Window(is_morning).low)
        b == Altitude(sky, Window(is_morning).high)
    IN  (a < 0 /\ b < 0) \/ (a > 0 /\ b > 0)

\* C15: when the target altitude is not attained inside the search window,
\* the search returns SolarEventNotFound and never a time, and
\* calculate_prayer_times returns that error.
C15_UnattainedTargetIsError ==
    (search.phase \in {"Returned", "Times"} /\ SameSide(search.sky, search.is_morning))
        => search.ret.kind = "SolarEventNotFound"

----------------------------------------------------------------------------
(* C16 *)

\* the search is inside or past its loop
Searching == search.phase \in {"Loop", "Returned"}

\* C16: the search ends after exactly 20 halving steps; at every step
\* low <= mid <= high, both bounds lie inside the initial window and the
\* bracket never widens; the final bracket is at most 1 second wide and the
\* returned instant is its midpoint.
C16_SearchTerminatesInsideWindow ==
    /\ [](Searching =>
            /\ search.low <= Mid(search.low, search.high)
            /\ Mid(search.low, search.high) <= search.high
            /\ Window(search.is_morning).low <= search.low
            /\ search.high <= Window(search.is_morning).high
            /\ search.step <= Iterations
            /\ search.phase = "Returned" =>
                  /\ search.step = Iterations
                  /\ search.high - search.low <= 1
                  /\ search.ret = [kind |-> "DateTime",
                                   at |-> Mid(search.low, search.high)])
    /\ [][(Searching /\ Searching') =>
            /\ search'.high - search'.low <= search.high - search.low
            /\ search'.step \in {search.step, search.step + 1}]_vars
    /\ ((search.phase = "Loop") ~> (search.phase = "Returned"))

\* an evening search has returned the second at which the sun set through
\* the target
C16_Witness ==
    /\ search.phase = "Returned"
    /\ ~search.is_morning
    /\ search.sky.kind = "Setting" /\ search.sky.x = 60000
    /\ search.step = Iterations
    /\ search.ret.at \in {59999, 60000}

----------------------------------------------------------------------------
(* C17 *)

\* C17: calculate_prayer_times returns imsak = fajr - imsak_buffer_minutes
\* minutes; with another buffer b2 and everything else the same, fajr is the
\* same and imsak moves by exactly the difference of the buffers.
C17_ImsakIsFajrMinusBuffer ==
    search.phase = "Times" =>
        LET t  == search.ret.times
            b1 == search.params.imsak_buffer_minutes
        IN  /\ t.fajr = find_sun_altitude_time(search.sky, TRUE)
            /\ t.imsak = t.fajr - 60 * b1
            /\ \A b2 \in Buffers :
                  LET t2 == calculate_prayer_times(search.sky,
                                                   [imsak_buffer_minutes |-> b2])
                  IN  /\ t2.fajr = t.fajr
                      /\ t.imsak - t2.imsak = 60 * (b2 - b1)

\* prayer times with a 15-minute buffer on a day with dawn at 03:25:45 UTC
C17_Witness ==
    /\ search.phase = "Times"
    /\ search.params.imsak_buffer_minutes = 15
    /\ search.sky.kind = "Rising" /\ search.sky.x = 12345
    /\ search.ret.times.imsak = search.ret.times.fajr - 900

----------------------------------------------------------------------------
(* C18 *)

\* the caller keeps calling next(), and a call that has started runs on
SpecDaudFair == SpecDaud /\ WF_vars(NextDaud)

\* the dates returned lie in [start, end] and each is later than the one
\* before
EmittedForward ==
    /\ \A i \in 1..Len(emitted) : iter.start <= emitted[i] /\ emitted[i] <= iter.end
    /\ \A i \in 1..Len(emitted), j \in 1..Len(emitted) : i < j => emitted[i] < emitted[j]

\* the cursor never moves backwards, and after None nothing more is returned
CursorForward ==
    /\ iter'.current >= iter.current
    /\ last = "Done" => (last' = "Done" /\ emitted' = emitted)

\* what holds of every schedule, the panicking ones included
C18_ForwardOnly == [](EmittedForward) /\ [][CursorForward]_vars

\* C18: next() eventually returns None; every returned date lies in
\* [start, end] and is later than the one before; the cursor never moves
\* backwards; when the cursor cannot advance the sequence ends without an
\* error; once None was returned every later call returns None.
C18_DaudFiniteForwardOnly ==
    /\ [](EmittedForward /\ last # "Panic")
    /\ [][CursorForward]_vars
    /\ <>(last = "Done")

----------------------------------------------------------------------------
(* src/src/extension.rs *)

\* try_fasting_analysis: check(*self, &RuleContext::default())
try_fasting_analysis(c, date) == check(c, date, DefaultContext)

\* try_status: check(*self, &RuleContext::default()).map(|a| a.primary_status)
try_status(c, date) ==
    Bind(try_fasting_analysis(c, date), LAMBDA a :
        [res |-> IF a.res.kind = "Ok"
                 THEN [kind |-> "Ok", status |-> a.res.status, err |-> NoErr]
                 ELSE [kind |-> a.res.kind, status |-> "None", err |-> a.res.err],
         cache |-> a.cache, conv |-> a.conv])

\* the days of the rule-engine model and January 1 of year 3000
ExtDates == Dates \cup {FromYmd(3000, 1, 1)}

\* date.try_status()
TryStatus(day) ==
    /\ result.kind # "Panic"
    /\ \E a \in {try_status(cache, day)} :
           /\ call' = [made |-> TRUE, op |-> "try_status",
                       datetime |-> [day |-> day, sec |-> 43200],
                       coords |-> NoCoords, conv |-> a.conv]
           /\ result' = a.res
           /\ cache' = a.cache
    /\ UNCHANGED <<builder, copy, geo, tls, threads, search, ctx, built, iter, emitted, last>>

\* date.try_fasting_analysis()
TryFastingAnalysis(day) ==
    /\ result.kind # "Panic"
    /\ \E a \in {try_fasting_analysis(cache, day)} :
           /\ call' = [made |-> TRUE, op |-> "try_fasting_analysis",
                       datetime |-> [day |-> day, sec |-> 43200],
                       coords |-> NoCoords, conv |-> a.conv]
           /\ result' = a.res
           /\ cache' = a.cache
    /\ UNCHANGED <<builder, copy, geo, tls, threads, search, ctx, built, iter, emitted, last>>

NextExt ==
    \/ \E d \in ExtDates : TryStatus(d)
    \/ \E d \in ExtDates : TryFastingAnalysis(d)

SpecExt == InitAnalyze /\ [][NextExt]_vars

----------------------------------------------------------------------------
(* C19 *)

\* C19: try_status and try_fasting_analysis return Err for a date outside
\* 1938-2076 and Ok for every date inside it.
C19_TryStatusErrOutOfRange ==
    (call.made /\ call.op \in {"try_status", "try_fasting_analysis"}) =>
        IF YearOutOfRange(call.datetime.day)
        THEN result.kind = "Err"
        ELSE result.kind = "Ok"

\* what holds instead: both return Ok for every date, and for a date outside
\* the range the status is Mubah
C19_TryStatusAlwaysOk ==
    (call.made /\ call.op \in {"try_status", "try_fasting_analysis"}) =>
        /\ result.kind = "Ok"
        /\ YearOutOfRange(call.datetime.day) => result.status = "Mubah"

----------------------------------------------------------------------------
(* C20 *)

\* the dummy analysis check returns in place of an error
IsFallback ==
    /\ result.kind = "Ok"
    /\ result.status = "Mubah" /\ result.reasons = <<>> /\ result.hijri = <<1400, 1, 1>>

\* C20: check (and analyze_date, which is check with the default context)
\* returns an analysis for every date and context without panicking; when
\* the underlying analyze fails the analysis is Mubah, without reasons, with
\* Hijri triple (1400, 1, 1).
C20_CheckInfallible ==
    (call.made /\ call.op = "check") =>
        /\ result.kind = "Ok"
        /\ analyze(NoCache, call.datetime, ctx, NoCoords).res.kind = "Err" => IsFallback

\* the same for the calls whose adjusted date is a representable date
C20_CheckInfallibleRepresentable ==
    (call.made /\ call.op = "check"
        /\ call.datetime.day + ctx.adjustment <= NaiveDateMax) => C20_CheckInfallible

----------------------------------------------------------------------------
(* RuleContextBuilder *)

\* adjustments handed to the builder: inside and outside [-2, 2] and [-30, 30]
BuilderAdjustments == {-31, -3, -2, 0, 2, 3, 31}

\* the builder has not been consumed by build
Building == ~call.made

\* RuleContextBuilder::adjustment(n)
BuilderAdjustment(n) ==
    /\ Building
    /\ builder' = [builder EXCEPT !.adjustment = [some |-> TRUE, v |-> n]]
    /\ UNCHANGED <<copy, geo, tls, threads, search, ctx, built, call, result, cache,
                   iter, emitted, last>>

\* RuleContextBuilder::madhab(m)
BuilderMadhab(m) ==
    /\ Building
    /\ builder' = [builder EXCEPT !.madhab = [some |-> TRUE, v |-> m]]
    /\ UNCHANGED <<copy, geo, tls, threads, search, ctx, built, call, result, cache,
                   iter, emitted, last>>

\* RuleContextBuilder::daud_strategy(s)
BuilderDaudStrategy(st) ==
    /\ Building
    /\ builder' = [builder EXCEPT !.daud_strategy = [some |-> TRUE, v |-> st]]
    /\ UNCHANGED <<copy, geo, tls, threads, search, ctx, built, call, result, cache,
                   iter, emitted, last>>

\* RuleContextBuilder::add_custom_rule(rule)
BuilderAddCustomRule(rule) ==
    /\ Building
    /\ Len(builder.custom_rules) < MaxRules
    /\ builder' = [builder EXCEPT !.custom_rules = Append(@, rule)]
    /\ UNCHANGED <<copy, geo, tls, threads, search, ctx, built, call, result, cache,
                   iter, emitted, last>>

\* RuleContextBuilder::strict_adjustment(b)
BuilderStrictAdjustment(b) ==
    /\ Building
    /\ builder' = [builder EXCEPT !.strict_adjustment = b]
    /\ UNCHANGED <<copy, geo, tls, threads, search, ctx, built, call, result, cache,
                   iter, emitted, last>>

\* RuleContextBuilder::build(): the builder is consumed; result holds what
\* build returned, builder what it was handed
BuilderBuildCall ==
    /\ Building
    /\ \E r \in {build(builder)} :
           /\ result' = [kind |-> r.kind,
                         ctx |-> IF r.kind = "Ok" THEN <<r.ctx>> ELSE <<>>]
           /\ built' = r.kind
           /\ ctx' = IF r.kind = "Ok" THEN r.ctx ELSE ctx
    /\ call' = [NoCall EXCEPT !.made = TRUE, !.op = "build"]
    /\ UNCHANGED <<builder, copy, geo, tls, threads, search, cache, iter, emitted, last>>

NextBuilder ==
    \/ \E n \in BuilderAdjustments : BuilderAdjustment(n)
    \/ \E m \in Madhab : BuilderMadhab(m)
    \/ \E st \in DaudStrategy : BuilderDaudStrategy(st)
    \/ \E r \in CustomRuleSet : BuilderAddCustomRule(r)
    \/ \E b \in BOOLEAN : BuilderStrictAdjustment(b)
    \/ BuilderBuildCall

SpecBuilder == InitAnalyze /\ [][NextBuilder]_vars

----------------------------------------------------------------------------
(* C21 *)

\* C21: build returns InvalidConfiguration and no context when
\* strict_adjustment is set and the adjustment lies outside [-2, 2]; in
\* every other case it returns a context with the supplied adjustment
\* clamped to [-30, 30] (0 if none) and the supplied or default madhab,
\* daud_strategy and custom rules.
C21_BuilderValidatesBeforeConstruction ==
    (call.made /\ call.op = "build") =>
        LET a == IF builder.adjustment.some THEN builder.adjustment.v ELSE 0
        IN  IF builder.strict_adjustment /\ (a < -2 \/ a > 2)
            THEN result.kind = "InvalidConfiguration" /\ result.ctx = <<>>
            ELSE /\ result.kind = "Ok"
                 /\ Len(result.ctx) = 1
                 /\ result.ctx[1].adjustment =
                       (IF a < -30 THEN -30 ELSE IF a > 30 THEN 30 ELSE a)
                 /\ result.ctx[1].madhab =
                       (IF builder.madhab.some THEN builder.madhab.v ELSE "Shafi")
                 /\ result.ctx[1].daud_strategy =
                       (IF builder.daud_strategy.some
                        THEN builder.daud_strategy.v ELSE "Skip")
                 /\ result.ctx[1].custom_rules = builder.custom_rules

\* a strict builder with adjustment 3 was rejected
C21_Witness ==
    /\ call.made /\ call.op = "build"
    /\ builder.strict_adjustment /\ builder.adjustment = [some |-> TRUE, v |-> 3]
    /\ result.kind = "InvalidConfiguration"

----------------------------------------------------------------------------
(* Construction of coordinates *)

\* whole degrees inside, on and beyond the limits of latitude
Latitudes == {-181, -91, -90, -7, 0, 21, 70, 90, 91, 181}

\* whole degrees inside, on and beyond the limits of longitude
Longitudes == {-361, -181, -180, -1, 0, 105, 110, 180, 181, 361}

\* GeoCoordinate::new_unchecked(lat, lng)
new_unchecked(lat, lng) == [some |-> TRUE, lat |-> lat, lng |-> lng]

\* GeoCoordinate::new(lat, lng)
GeoNew(lat, lng) ==
    /\ geo' = [made |-> TRUE, by |-> "new", lat |-> lat, lng |-> lng,
               built |-> GeoCoordinate(lat, lng)]
    /\ UNCHANGED <<builder, copy, tls, threads, search, ctx, built, call, result, cache,
                   iter, emitted, last>>

\* GeoCoordinate::new_unchecked(lat, lng)
GeoNewUnchecked(lat, lng) ==
    /\ geo' = [made |-> TRUE, by |-> "new_unchecked", lat |-> lat, lng |-> lng,
               built |-> new_unchecked(lat, lng)]
    /\ UNCHANGED <<builder, copy, tls, threads, search, ctx, built, call, result, cache,
                   iter, emitted, last>>

NextGeo ==
    \/ \E lat \in Latitudes, lng \in Longitudes : GeoNew(lat, lng)
    \/ \E lat \in Latitudes, lng \in Longitudes : GeoNewUnchecked(lat, lng)

SpecGeo == InitAnalyze /\ [][NextGeo]_vars

----------------------------------------------------------------------------
(* C22 *)

\* C22: GeoCoordinate::new rejects a latitude outside [-90, 90] and a
\* longitude outside [-180, 180], so a coordinate it built lies inside both
\* ranges.
C22_CheckedConstructorValidates ==
    (geo.made /\ geo.by = "new") =>
        IF geo.lat >= -90 /\ geo.lat <= 90 /\ geo.lng >= -180 /\ geo.lng <= 180
        THEN geo.built = [some |-> TRUE, lat |-> geo.lat, lng |-> geo.lng]
        ELSE ~geo.built.some

----------------------------------------------------------------------------
(* C23 *)

\* seconds from 00:00 UTC of the civil date to the query instant
InstantSeconds == call.datetime.sec

\* seconds from 00:00 UTC of the civil date to 18:00 local mean time there
SunsetSeconds == 64800 - 240 * call.coords.lng

\* the latest call had coordinates, a sunset and an instant after it
PastSunset ==
    /\ call.coords.some
    /\ call.datetime.day + (SunsetSeconds \div 86400) <= NaiveDateMax
    /\ InstantSeconds > SunsetSeconds

\* the date the latest call has to evaluate
ExpectedEffective ==
    IF PastSunset THEN call.datetime.day + 1 ELSE call.datetime.day

\* the rollover notice
RolloverTrace == RuleTrace("Debug", "PostMaghrib")

\* C23: an instant strictly after the sunset of its civil date, with
\* coordinates given, is evaluated on the next calendar day and the rollover
\* notice is the first trace entry; without coordinates, without a sunset, or
\* at or before sunset, the civil date is evaluated and no notice is added.
\* The Hijri conversion and the weekday rules use that date; the date field of
\* the result is the original instant.
C23_EffectiveDateRollover ==
    (call.made /\ call.op = "analyze") =>
        /\ call.conv.called =>
              /\ call.conv.date = ExpectedEffective
              /\ call.conv.adjustment = ctx.adjustment
        /\ result.kind = "Ok" =>
              /\ result.date = call.datetime
              /\ result.hijri = FromGr(ExpectedEffective + ctx.adjustment)
              /\ IF PastSunset
                 THEN /\ Len(result.traces) >= 1
                      /\ result.traces[1] = RolloverTrace
                      /\ \A i \in 2..Len(result.traces) : result.traces[i] # RolloverTrace
                 ELSE RolloverTrace \notin Range(result.traces)
              /\ ~IsHaramDay(result.hijri) =>
                    /\ "Monday" \in Range(result.reasons)
                          <=> WeekdayOf(ExpectedEffective) = "Mon"
                    /\ "Thursday" \in Range(result.reasons)
                          <=> WeekdayOf(ExpectedEffective) = "Thu"

\* Thursday 2025-06-05 at 18:00:01 UTC on the Greenwich meridian is analysed
\* as Friday 9 Dhul-Hijjah: Arafah, no Thursday, notice first
C23_Witness ==
    /\ Analysed /\ PastSunset
    /\ call.datetime = [day |-> FromYmd(2025, 6, 5), sec |-> 64801]
    /\ ctx.adjustment = 0
    /\ result.hijri = <<1446, 12, 9>>
    /\ result.traces[1] = RolloverTrace
    /\ "Thursday" \notin Range(result.reasons)
    /\ "Arafah" \in Range(result.reasons)

----------------------------------------------------------------------------
(* C24 *)

\* the Hijri triple analyze reports for day d under ctx with adjustment a
HijriReported(d, a) ==
    analyze(NoCache, [day |-> d, sec |-> 43200],
            [ctx EXCEPT !.adjustment = a], NoCoords).res.hijri

\* the Gregorian year of day d is one the converter supports
InRange(d) == YearOf(d) >= HIJRI_MIN_YEAR /\ YearOf(d) <= HIJRI_MAX_YEAR

\* the reasons that depend on the day of the week, with their weekday
WeekdayReasons ==
    {<<"Monday", "Mon">>, <<"Thursday", "Thu">>,
     <<"FridayExclusive", "Fri">>, <<"SaturdayExclusive", "Sat">>}

\* C24: when the effective date d and d + adjustment are both in range, the
\* Hijri triple reported under the adjustment is the triple reported for
\* d + adjustment under adjustment 0; Monday, Thursday, FridayExclusive and
\* SaturdayExclusive follow the weekday of d itself; and an adjustment of -1
\* on 1 Ramadhan gives a status other than Wajib.
C24_AdjustmentIsDayShift ==
    (call.made /\ call.conv.called
        /\ InRange(call.conv.date) /\ InRange(call.conv.date + ctx.adjustment)) =>
        /\ result.kind = "Ok"
        /\ result.hijri = HijriReported(call.conv.date + ctx.adjustment, 0)
        /\ \A wr \in WeekdayReasons :
              wr[1] \in Range(result.reasons) => WeekdayOf(call.conv.date) = wr[2]
        /\ ~IsHaramDay(result.hijri) =>
              /\ WeekdayOf(call.conv.date) = "Mon" => "Monday" \in Range(result.reasons)
              /\ WeekdayOf(call.conv.date) = "Thu" => "Thursday" \in Range(result.reasons)
        /\ (ctx.adjustment = -1 /\ HijriReported(call.conv.date, 0)[2] = 9
                /\ HijriReported(call.conv.date, 0)[3] = 1) =>
              result.status # "Wajib"

\* check of 1 Ramadhan 1446 (Saturday 2025-03-01) under adjustment -1 reports
\* 29 Sha'ban, no Ramadhan, and the Saturday reason of the unshifted date
C24_Witness ==
    /\ call.made /\ call.op = "check"
    /\ call.datetime.day = FromYmd(2025, 3, 1)
    /\ ctx.adjustment = -1 /\ ctx.custom_rules = <<>>
    /\ HijriReported(call.datetime.day, 0) = <<1446, 9, 1>>
    /\ result.hijri = <<1446, 8, 29>>
    /\ result.status = "Makruh"
    /\ result.reasons = <<"SaturdayExclusive">>

----------------------------------------------------------------------------
(* C25 *)

\* status and reasons after each step of one analyze call on a day that the
\* Haram stage does not stop: at the start, after Ramadhan, after Arafah and
\* Ashura, after Tasua, Ayyamul Bidh, the weekday and Shawwal, after the
\* Makruh test, and after each registered custom rule in turn
StageChain(context, date, h) ==
    LET s0 == [status |-> "Mubah", types |-> <<>>, traces |-> <<>>]
        s1 == StageWajib(s0, h[2])
        s2 == StageMuakkadah(s1, h[2], h[3])
        s3 == RuleTasua(s2, h[2], h[3])
        s4 == RuleAyyamulBidh(s3, h[3])
        s5 == RuleWeekday(s4, WeekdayOf(date))
        s6 == RuleShawwal(s5, h[2], h[3])
        s7 == StageMakruh(s6, context.madhab, WeekdayOf(date))
    IN  <<s0, s1, s2, s3, s4, s5, s6, s7>>
        \o [k \in 1..Len(context.custom_rules) |->
               StageCustom(s7, SubSeq(context.custom_rules, 1, k), date, h)]

\* s is an initial segment of t
IsPrefix(s, t) == Len(s) <= Len(t) /\ SubSeq(t, 1, Len(s)) = s

\* the chain of the latest call
Chain == StageChain(ctx, call.conv.date, result.hijri)

\* C25: from one stage of an analyze call to the next the rank of the status
\* never goes down and the reasons only grow at the end, so the reasons after
\* each stage are a prefix of the returned ones; a Wajib status stays at
\* least Wajib.
C25_StatusAndReasonsMonotone ==
    (Analysed /\ ~IsHaramDay(result.hijri)) =>
        \A ch \in {Chain} :
            /\ \A i \in 1..(Len(ch) - 1) :
                  /\ Rank(ch[i].status) <= Rank(ch[i + 1].status)
                  /\ IsPrefix(ch[i].types, ch[i + 1].types)
            /\ \A i \in 1..Len(ch) :
                  /\ IsPrefix(ch[i].types, result.reasons)
                  /\ Rank(ch[i].status) <= Rank(result.status)
            /\ ch[Len(ch)].status = result.status
            /\ ch[Len(ch)].types = result.reasons

\* Thursday 13 Ramadhan 1446 (2025-03-13): Wajib after the first stage and at
\* the end, with the Ayyamul Bidh and Thursday reasons collected after it
C25_Witness ==
    /\ Analysed
    /\ result.hijri = <<1446, 9, 13>>
    /\ Chain[2].status = "Wajib" /\ Chain[2].types = <<"Ramadhan">>
    /\ result.status = "Wajib"
    /\ result.reasons = <<"Ramadhan", "AyyamulBidh", "Thursday", "CustomSunnah">>

----------------------------------------------------------------------------
(* C26 *)

\* the step is a call of next() whose loop looks at a date that check does
\* not find Haram
NonHaramVisit ==
    /\ Iterating /\ iter.current <= iter.end
    /\ (iter' # iter \/ last' # last \/ emitted' # emitted)
    /\ check(cache, iter.current, ctx).res.kind # "Panic"
    /\ check(cache, iter.current, ctx).res.status # "Haram"

\* the date is returned when it is its turn, and the turn passes on
Alternates ==
    IF iter.should_fast
    THEN emitted' = Append(emitted, iter.current) /\ ~iter'.should_fast
    ELSE emitted' = emitted /\ iter'.should_fast

\* two dates returned one after the other are at least 2 days apart
TwoDaysApart ==
    \A i \in 1..(Len(emitted) - 1) : emitted[i + 1] - emitted[i] >= 2

\* the first date of the range was looked at and the rule engine does not
\* find it Haram
FirstDateDone ==
    /\ iter.start <= iter.end
    /\ (iter.current > iter.start \/ last = "Done")
    /\ StatusOf(iter.start) # "Haram"

\* what holds of every schedule whose dates all have a next day
C26_DaudAlternatesRepresentable ==
    /\ [][(NonHaramVisit /\ SuccOpt(iter.current) # -1) => Alternates]_vars
    /\ [](TwoDaysApart)
    /\ []((FirstDateDone /\ SuccOpt(iter.start) # -1) =>
             (Len(emitted) >= 1 /\ emitted[1] = iter.start))

\* C26: a date that is not Haram is returned when should_fast is true and
\* not returned when it is false, and should_fast flips either way; two dates
\* returned one after the other are at least 2 days apart; a non-empty range
\* whose first date is not Haram returns that first date.
C26_DaudAlternates ==
    /\ [][NonHaramVisit => Alternates]_vars
    /\ [](TwoDaysApart)
    /\ [](FirstDateDone => (Len(emitted) >= 1 /\ emitted[1] = iter.start))

----------------------------------------------------------------------------
(* C27 *)

\* the status of a day that is not Haram, from its Hijri month and day and
\* its weekday alone
ReferenceStatus(h_month, h_day, weekday) ==
    IF h_month = 9 THEN "Wajib"
    ELSE IF (h_month = 12 /\ h_day = 9) \/ (h_month = 1 /\ h_day = 10)
    THEN "SunnahMuakkadah"
    ELSE IF \/ (h_month = 1 /\ h_day = 9)
            \/ h_day \in 13..15
            \/ weekday \in {"Mon", "Thu"}
            \/ (h_month = 10 /\ h_day >= 2)
    THEN "Sunnah"
    ELSE IF weekday \in {"Fri", "Sat"} THEN "Makruh"
    ELSE "Mubah"

\* the analysis of the latest call repeated under madhab m
UnderMadhab(m) ==
    analyze(NoCache, call.datetime, [ctx EXCEPT !.madhab = m], call.coords).res

\* C27: on a day that is not Haram, without custom rules, the status is
\* Wajib in Ramadhan, else SunnahMuakkadah on Arafah and Ashura, else Sunnah
\* on Tasua, on Hijri days 13-15, on Mondays and Thursdays and from 2 Shawwal
\* on, else Makruh on Fridays and Saturdays, else Mubah; the four madhabs
\* give the same analysis.
C27_ReferenceStatus ==
    (Analysed /\ ~IsHaramDay(result.hijri) /\ ctx.custom_rules = <<>>) =>
        /\ result.status = ReferenceStatus(result.hijri[2], result.hijri[3],
                                           WeekdayOf(call.conv.date))
        /\ \A m \in Madhab :
              \A r \in {UnderMadhab(m)} :
                 /\ r.status = result.status
                 /\ r.reasons = result.reasons
                 /\ r.hijri = result.hijri

\* a bare Friday analysed under the Hanbali school is Makruh
C27_Witness ==
    /\ Analysed /\ ctx.custom_rules = <<>>
    /\ ctx.madhab = "Hanbali"
    /\ WeekdayOf(call.conv.date) = "Fri"
    /\ result.status = "Makruh"
    /\ result.reasons = <<"FridayExclusive">>

----------------------------------------------------------------------------
(* C28 *)

\* the step is one iteration of the search loop
IterationStep ==
    /\ search.phase = "Loop" /\ search'.phase = "Loop"
    /\ search'.step = search.step + 1

\* the altitude, relative to the target, at the midpoint of the bracket
MidAltitude == Altitude(search.sky, search.low + ((search.high - search.low) \div 2))

\* the lower bound moves up to the midpoint
LowerMovesUp ==
    /\ search'.low = search.low + ((search.high - search.low) \div 2)
    /\ search'.high = search.high

\* the upper bound moves down to the midpoint
UpperMovesDown ==
    /\ search'.high = search.low + ((search.high - search.low) \div 2)
    /\ search'.low = search.low

\* the altitude of the search under way is monotonic in the direction the
\* search assumes and crosses the target inside the search window
MonotoneAttained ==
    /\ search.phase \in {"Loop", "Returned"}
    /\ \/ /\ search.is_morning /\ search.sky.kind = "Rising"
          /\ search.sky.x >= 0 /\ search.sky.x <= 12 * 3600
       \/ /\ ~search.is_morning /\ search.sky.kind = "Setting"
          /\ search.sky.x >= 12 * 3600 /\ search.sky.x <= 24 * 3600

\* C28: a morning iteration moves the lower bound up when the midpoint
\* altitude is below the target and the upper bound down otherwise; an
\* evening iteration moves the lower bound up when it is above the target and
\* the upper bound down otherwise.  With a monotonic altitude that attains
\* the target in the window, the crossing is inside the bracket at every
\* step and the returned instant is within 1 second of it.
C28_BisectionDirection ==
    /\ [][IterationStep =>
            IF search.is_morning
            THEN IF MidAltitude < 0 THEN LowerMovesUp ELSE UpperMovesDown
            ELSE IF MidAltitude > 0 THEN LowerMovesUp ELSE UpperMovesDown]_vars
    /\ [](MonotoneAttained =>
            /\ search.low <= search.sky.x /\ search.sky.x <= search.high
            /\ search.phase = "Returned" =>
                  /\ search.ret.at - search.sky.x <= 1
                  /\ search.sky.x - search.ret.at <= 1)

\* an evening search for a sun that sets through the target at 16:40:00 has
\* returned after 20 iterations with a bracket of one second around it
C28_Witness ==
    /\ MonotoneAttained /\ search.phase = "Returned"
    /\ ~search.is_morning /\ search.sky.x = 60000
    /\ search.step = Iterations
    /\ search.low = 59999 /\ search.high = 60000
    /\ search.ret.at = 59999

----------------------------------------------------------------------------
(* C29 *)

\* the trace code that stands for a built-in reason
TraceCodeOf(reason) ==
    CASE reason = "FridayExclusive"   -> "FridaySingledOut"
      [] reason = "SaturdayExclusive" -> "SaturdaySingledOut"
      [] OTHER                        -> reason

\* the names of the reasons custom rules give
CustomTypes == {rule.name : rule \in CustomRuleSet}

\* trace entry t is the one that records reason
Matches(reason, t) ==
    IF reason \in CustomTypes
    THEN t = RuleTrace("Custom", reason)
    ELSE t = RuleTrace(TraceCodeOf(reason), "None")

\* the Debug notices of an analysis
DebugTraces(traces) == SelectSeq(traces, LAMBDA t : t.code = "Debug")

\* C29: in every analysis the trace entries that are not Debug notices are,
\* one for one and in the same order, the entries of the reasons (a custom
\* reason as a Custom entry carrying its type name); the trace holds as many
\* entries as there are reasons and Debug notices, and the notices (rollover,
\* out of range) come first.
C29_TraceMirrorsReasons ==
    (call.made /\ call.op = "analyze" /\ result.kind = "Ok") =>
        \A rt \in {RuleTraces(result.traces)}, dt \in {DebugTraces(result.traces)} :
            /\ Len(rt) = Len(result.reasons)
            /\ \A i \in 1..Len(rt) : Matches(result.reasons[i], rt[i])
            /\ Len(result.traces) = Len(result.reasons) + Len(dt)
            /\ result.traces = dt \o rt
            /\ Range(dt) \subseteq {RuleTrace("Debug", "PostMaghrib"),
                                    RuleTrace("Debug", "OutOfRangeClamping")}

\* after sunset on 2025-06-05 with one custom rule: the rollover notice, then
\* Arafah, then the custom entry, for the reasons Arafah and CustomSunnah
C29_Witness ==
    /\ Analysed
    /\ result.reasons = <<"Arafah", "CustomSunnah">>
    /\ result.traces = <<RuleTrace("Debug", "PostMaghrib"), RuleTrace("Arafah", "None"),
                         RuleTrace("Custom", "CustomSunnah")>>

----------------------------------------------------------------------------
(* Clone of a RuleContext *)

\* clone that carries the custom rules over
clone_KeepRules(context) ==
    [adjustment |-> context.adjustment, madhab |-> context.madhab,
     daud_strategy |-> context.daud_strategy, strict |-> context.strict,
     custom_rules |-> context.custom_rules]

\* impl Clone for RuleContext
clone(context) ==
    [adjustment |-> context.adjustment, madhab |-> context.madhab,
     daud_strategy |-> context.daud_strategy, strict |-> context.strict,
     custom_rules |-> <<>>]

\* days analysed under a context and under its clone: 29 Ramadhan, 1 and 3
\* Shawwal, 8 Dhul-Hijjah 1446, and a day outside the supported years
CloneDates ==
    {FromYmd(2025, 3, 29), FromYmd(2025, 3, 31), FromYmd(2025, 4, 2),
     FromYmd(2025, 6, 5), FromYmd(2077, 1, 1)}

\* let c = ctx.clone(); analyze(datetime, &c, coords), for the instant and
\* observer ctx itself was analysed at
CloneAnalyze ==
    /\ Running
    /\ call.made /\ call.op = "analyze"
    /\ ~copy.made
    /\ \E c \in {clone(ctx)} :
          \E a \in {analyze(cache, call.datetime, c, call.coords)} :
             /\ copy' = [made |-> TRUE, of |-> ctx, ctx |-> c, res |-> a.res]
             /\ cache' = a.cache
    /\ UNCHANGED <<builder, geo, tls, threads, search, ctx, built, call, result,
                   iter, emitted, last>>

NextClone ==
    \/ \E n \in AdjInputs : CtxAdjustment(n)
    \/ \E m \in Madhab : CtxMadhab(m)
    \/ \E st \in DaudStrategy : CtxDaudStrategy(st)
    \/ \E b \in BOOLEAN : CtxStrict(b)
    \/ \E r \in CustomRuleSet : PushCustomRule(r)
    \/ \E d \in CloneDates, in \in Inputs : Analyze(d, in)
    \/ CloneAnalyze

SpecClone == InitAnalyze /\ [][NextClone]_vars

----------------------------------------------------------------------------
(* C30 *)

\* a custom rule matched in the analysis under the original context
CustomMatched == \E i \in 1..Len(result.traces) : result.traces[i].code = "Custom"

\* C30: a clone has the adjustment, madhab, daud_strategy and strict of the
\* original and no custom rules; its analysis of the same instant equals the
\* original's exactly when no custom rule of the original matched; the
\* original is unchanged.
C30_CloneDropsCustomRules ==
    copy.made =>
        /\ copy.ctx.adjustment = copy.of.adjustment
        /\ copy.ctx.madhab = copy.of.madhab
        /\ copy.ctx.daud_strategy = copy.of.daud_strategy
        /\ copy.ctx.strict = copy.of.strict
        /\ copy.ctx.custom_rules = <<>>
        /\ ctx = copy.of
        /\ (copy.res = result) <=> ~CustomMatched

\* 29 Ramadhan 1446 under a context with both custom rules is Haram; under
\* its clone it is Wajib with the single reason Ramadhan
C30_Witness ==
    /\ copy.made
    /\ Len(ctx.custom_rules) = 2
    /\ ctx.adjustment = -1 /\ ctx.madhab = "Hanafi" /\ ctx.strict
    /\ result.hijri = <<1446, 9, 29>>
    /\ result.status = "Haram"
    /\ copy.res.status = "Wajib" /\ copy.res.reasons = <<"Ramadhan">>

====
